---- MODULE Spec2Model ----
(***************************************************************************)
(* A model of the ray tracer core: tuples, matrices, shapes, rays and      *)
(* intersections, Phong lighting, the world and the camera's renderer.     *)
(*                                                                         *)
(* Numbers.  The program computes in f64.  The model computes in fixed     *)
(* point: the integer n stands for the real n / Scale, every product and   *)
(* quotient is rounded to the nearest multiple of 1 / Scale (half away     *)
(* from zero, so that negation commutes with rounding as it does in        *)
(* IEEE-754).  NaN and the infinities have no representation: the scenes   *)
(* and inputs enumerated below never divide by zero.                       *)
(***************************************************************************)
EXTENDS Integers, Sequences, FiniteSets, TLC

(***************************************************************************)
(* Fixed-point arithmetic                                                  *)
(***************************************************************************)
Scale == 1000

Abs(n) == IF n < 0 THEN -n ELSE n

\* let x = value; Body(x): the value is computed once, before the body
Bind(value, Body(_)) == CHOOSE r \in { Body(x) : x \in {value} } : TRUE

\* n / d rounded to the nearest integer, halves away from zero (d # 0)
RoundDiv(n, d) ==
    Bind(n, LAMBDA num :
    Bind(Abs(num), LAMBDA an :
    Bind(Abs(d), LAMBDA ad :
    Bind(an % ad, LAMBDA r :
    Bind(IF r >= ad - r THEN (an \div ad) + 1 ELSE an \div ad, LAMBDA q :
        IF (num < 0) = (d < 0) THEN q ELSE -q)))))

\* f64 multiplication
FMul(a, b) == RoundDiv(a * b, Scale)

\* f64 division (b # 0)
FDiv(a, b) == RoundDiv(a * Scale, b)

RECURSIVE SqrtSearch(_, _, _)
\* the largest r in lo..hi with r * r <= n
SqrtSearch(n, lo, hi) ==
    IF lo >= hi THEN lo
    ELSE Bind((lo + hi + 1) \div 2, LAMBDA mid :
             IF mid * mid <= n THEN SqrtSearch(n, mid, hi)
                               ELSE SqrtSearch(n, lo, mid - 1))

\* the integer nearest to the square root of n (n >= 0)
ISqrt(n) ==
    Bind(SqrtSearch(n, 0, 46340), LAMBDA r :
        IF n - r * r > r THEN r + 1 ELSE r)

\* f64::sqrt (a >= 0)
FSqrt(a) == ISqrt(a * Scale)

RECURSIVE FPowN(_, _)
\* x raised to the natural number n, by squaring
FPowN(x, n) ==
    IF n = 0 THEN Scale
    ELSE Bind(FPowN(x, n \div 2), LAMBDA h :
             IF n % 2 = 0 THEN FMul(h, h) ELSE FMul(FMul(h, h), x))

\* f64::powf for an exponent with an integral value
FPow(x, e) == FPowN(x, e \div Scale)

\* f64::sin, f64::cos and f64::tan by their power series (|x| < 2)
Sin(x) ==
    LET x2 == FMul(x, x)
        x3 == FMul(x2, x)
        x5 == FMul(x3, x2)
        x7 == FMul(x5, x2)
    IN  x - RoundDiv(x3, 6) + RoundDiv(x5, 120) - RoundDiv(x7, 5040)

Cos(x) ==
    LET x2 == FMul(x, x)
        x4 == FMul(x2, x2)
        x6 == FMul(x4, x2)
        x8 == FMul(x4, x4)
    IN  Scale - RoundDiv(x2, 2) + RoundDiv(x4, 24) - RoundDiv(x6, 720)
          + RoundDiv(x8, 40320)

Tan(x) == FDiv(Sin(x), Cos(x))

\* utils.rs: EPSILON, one unit of the model's grid
EPSILON == 1

equal_f64(x, y) == Abs(x - y) < EPSILON

(***************************************************************************)
(* Tuples (tuple.rs)                                                       *)
(***************************************************************************)
Tuple(x, y, z, w) == [x |-> x, y |-> y, z |-> z, w |-> w]

Point(x, y, z) == Tuple(x, y, z, Scale)

Vector(x, y, z) == Tuple(x, y, z, 0)

TAdd(a, b) == Tuple(a.x + b.x, a.y + b.y, a.z + b.z, a.w + b.w)

TSub(a, b) == Tuple(a.x - b.x, a.y - b.y, a.z - b.z, a.w - b.w)

TNeg(a) == TSub(Tuple(0, 0, 0, 0), a)

TScale(a, k) == Tuple(FMul(a.x, k), FMul(a.y, k), FMul(a.z, k), FMul(a.w, k))

Dot(a, b) == FMul(a.x, b.x) + FMul(a.y, b.y) + FMul(a.z, b.z) + FMul(a.w, b.w)

Magnitude(a) ==
    FSqrt(FMul(a.x, a.x) + FMul(a.y, a.y) + FMul(a.z, a.z) + FMul(a.w, a.w))

Normalize(a) ==
    Bind(Magnitude(a), LAMBDA magnitude :
        Tuple(FDiv(a.x, magnitude), FDiv(a.y, magnitude),
              FDiv(a.z, magnitude), FDiv(a.w, magnitude)))

Cross(a, b) ==
    Vector(FMul(a.y, b.z) - FMul(a.z, b.y),
           FMul(a.z, b.x) - FMul(a.x, b.z),
           FMul(a.x, b.y) - FMul(a.y, b.x))

Reflect(v, normal) == TSub(v, TScale(TScale(normal, 2 * Scale), Dot(v, normal)))

\* PartialEq for Tuple
TupleEq(a, b) ==
    /\ equal_f64(a.x, b.x)
    /\ equal_f64(a.y, b.y)
    /\ equal_f64(a.z, b.z)
    /\ equal_f64(a.w, b.w)

(***************************************************************************)
(* Colors (canvas.rs)                                                      *)
(***************************************************************************)
Color(r, g, b) == [red |-> r, green |-> g, blue |-> b]

Black == Color(0, 0, 0)

White == Color(Scale, Scale, Scale)

CAdd(a, b) == Color(a.red + b.red, a.green + b.green, a.blue + b.blue)

CScale(a, k) == Color(FMul(a.red, k), FMul(a.green, k), FMul(a.blue, k))

CMul(a, b) ==
    Color(FMul(a.red, b.red), FMul(a.green, b.green), FMul(a.blue, b.blue))

(***************************************************************************)
(* Matrices (matrix.rs): size and row-major elements, indexed from 0       *)
(***************************************************************************)
\* <[T]>::to_vec and Iterator::collect: the elements, stored in a Vec
ToVec(s) == s \o << >>

\* Matrix::new: the size is the integer square root of the element count
MatrixNew(elements) ==
    Bind(ToVec(elements), LAMBDA vec :
    Bind(Len(vec), LAMBDA len :
        [size |-> SqrtSearch(len, 0, len), elements |-> vec]))

Index(m, x, y) == y * m.size + x

\* the element in row y, column x
At(m, y, x) == m.elements[Index(m, x, y) + 1]

Identity ==
    MatrixNew(<< Scale, 0, 0, 0,
                 0, Scale, 0, 0,
                 0, 0, Scale, 0,
                 0, 0, 0, Scale >>)

Translation(x, y, z) ==
    MatrixNew(<< Scale, 0, 0, x,
                 0, Scale, 0, y,
                 0, 0, Scale, z,
                 0, 0, 0, Scale >>)

Scaling(x, y, z) ==
    MatrixNew(<< x, 0, 0, 0,
                 0, y, 0, 0,
                 0, 0, z, 0,
                 0, 0, 0, Scale >>)

Shearing(x_y, x_z, y_x, y_z, z_x, z_y) ==
    MatrixNew(<< Scale, x_y, x_z, 0,
                 y_x, Scale, y_z, 0,
                 z_x, z_y, Scale, 0,
                 0, 0, 0, Scale >>)

MulItem(m, rhs, row, col) ==
    LET RECURSIVE Sum(_)
        Sum(i) == IF i = m.size THEN 0
                  ELSE FMul(At(m, row, i), At(rhs, i, col)) + Sum(i + 1)
    IN  Sum(0)

\* transpose writing the upper triangle only: the rest is left as it was
TransposeUpper(m) ==
    MatrixNew([k \in 1..(m.size * m.size) |->
                 LET index == k - 1
                     row   == index \div m.size
                     col   == index % m.size
                 IN  IF row < col THEN At(m, col, row) ELSE At(m, row, col)])

Transpose(m) ==
    MatrixNew([k \in 1..(m.size * m.size) |->
                 LET index == k - 1
                     row   == index \div m.size
                     col   == index % m.size
                 IN  At(m, col, row)])

\* Option: None is the empty sequence, Some(v) the sequence of v alone
None == << >>

Some(v) == << v >>

IsSome(o) == o # None

Unwrap(o) == o[1]

RECURSIVE FilterMap(_)
\* Iterator::filter_map(|x| x): the values of the Some members of s, in order
FilterMap(s) ==
    IF s = << >> THEN << >>
    ELSE Bind(Tail(s), LAMBDA rest : Head(s) \o FilterMap(rest))

Submatrix(m, row, col) ==
    Bind(ToVec([k \in 1..(m.size * m.size) |->
                 LET index == k - 1
                     r     == index \div m.size
                     c     == index % m.size
                 IN  IF r = row \/ c = col THEN None ELSE Some(At(m, r, c))]),
         LAMBDA options : MatrixNew(FilterMap(options)))

RECURSIVE Determinant(_)
Minor(m, row, col) ==
    Bind(Submatrix(m, row, col), LAMBDA sub : Determinant(sub))

\* cofactor without the change of sign where row + col is odd
CofactorUnsigned(m, row, col) == Minor(m, row, col)

Cofactor(m, row, col) ==
    Bind(Minor(m, row, col), LAMBDA minor :
        IF (row + col) % 2 = 0 THEN minor ELSE -minor)

Determinant(m) ==
    IF m.size = 2
    THEN FMul(At(m, 0, 0), At(m, 1, 1)) - FMul(At(m, 0, 1), At(m, 1, 0))
    ELSE LET RECURSIVE Sum(_)
             Sum(i) == IF i = m.size THEN 0
                       ELSE FMul(At(m, 0, i), Cofactor(m, 0, i)) + Sum(i + 1)
         IN  Sum(0)

IsInvertible(m) == ~ equal_f64(Determinant(m), 0)

\* inverse refusing a determinant of epsilon itself as well
InverseRefusingEpsilon(m) ==
    Bind(Determinant(m), LAMBDA det :
        IF Abs(det) <= EPSILON THEN None
        ELSE Some(MatrixNew([k \in 1..(m.size * m.size) |->
                 LET index == k - 1
                     row   == index \div m.size
                     col   == index % m.size
                     c     == Cofactor(m, col, row)
                 IN  FDiv(c, det)])))

\* Matrix::inverse: None for a singular matrix
Inverse(m) ==
    Bind(Determinant(m), LAMBDA det :
        IF equal_f64(det, 0) THEN None
        ELSE Some(MatrixNew([k \in 1..(m.size * m.size) |->
                 LET index == k - 1
                     row   == index \div m.size
                     col   == index % m.size
                     c     == Cofactor(m, col, row)
                 IN  FDiv(c, det)])))

\* the product with its factors exchanged
MatMulExchanged(m, rhs) ==
    MatrixNew([k \in 1..(m.size * m.size) |->
                 LET index == k - 1
                     row   == index \div m.size
                     col   == index % m.size
                 IN  MulItem(rhs, m, row, col)])

MatMul(m, rhs) ==
    MatrixNew([k \in 1..(m.size * m.size) |->
                 LET index == k - 1
                     row   == index \div m.size
                     col   == index % m.size
                 IN  MulItem(m, rhs, row, col)])

MatMulTuple(m, rhs) ==
    Tuple(FMul(At(m, 0, 0), rhs.x) + FMul(At(m, 0, 1), rhs.y)
            + FMul(At(m, 0, 2), rhs.z) + FMul(At(m, 0, 3), rhs.w),
          FMul(At(m, 1, 0), rhs.x) + FMul(At(m, 1, 1), rhs.y)
            + FMul(At(m, 1, 2), rhs.z) + FMul(At(m, 1, 3), rhs.w),
          FMul(At(m, 2, 0), rhs.x) + FMul(At(m, 2, 1), rhs.y)
            + FMul(At(m, 2, 2), rhs.z) + FMul(At(m, 2, 3), rhs.w),
          FMul(At(m, 3, 0), rhs.x) + FMul(At(m, 3, 1), rhs.y)
            + FMul(At(m, 3, 2), rhs.z) + FMul(At(m, 3, 3), rhs.w))

\* PartialEq for Matrix: zip pairs the elements up to the shorter of the two
MatrixEq(a, b) ==
    \A k \in 1..Len(a.elements) :
        k <= Len(b.elements) => equal_f64(a.elements[k], b.elements[k])

(***************************************************************************)
(* Patterns (pattern.rs), materials and lights (light.rs)                  *)
(***************************************************************************)
\* f64::floor, as a number of whole units
Floor(x) == x \div Scale

\* the remainder of Rust's %: it has the sign of the dividend
Rem(a, b) == IF a >= 0 THEN a % b ELSE -((-a) % b)

StripePattern(color_a, color_b) ==
    [kind |-> "stripe", a |-> color_a, b |-> color_b, transform |-> Identity]

PatternWithTransform(pattern, transform) ==
    [pattern EXCEPT !.transform = transform]

\* pattern_at truncating x toward zero instead of taking its floor
StripePatternAtTruncating(pattern, point) ==
    IF Rem(point.x - Rem(point.x, Scale), 2 * Scale) = 0 THEN pattern.a ELSE pattern.b

StripePatternAt(pattern, point) ==
    IF Rem(Floor(point.x), 2) = 0 THEN pattern.a ELSE pattern.b

PatternAt(pattern, point) == StripePatternAt(pattern, point)

\* at_object undoing the pattern's transform before the object's
AtObjectPatternFirst(pattern, object, point) ==
    Bind(Unwrap(Inverse(pattern.transform)), LAMBDA pattern_inverse :
    Bind(MatMulTuple(pattern_inverse, point), LAMBDA pattern_point :
    Bind(Unwrap(Inverse(object.transform)), LAMBDA object_inverse :
    Bind(MatMulTuple(object_inverse, pattern_point), LAMBDA object_point :
        PatternAt(pattern, object_point)))))

AtObject(pattern, object, point) ==
    Bind(Unwrap(Inverse(object.transform)), LAMBDA object_inverse :
    Bind(MatMulTuple(object_inverse, point), LAMBDA object_point :
    Bind(Unwrap(Inverse(pattern.transform)), LAMBDA pattern_inverse :
    Bind(MatMulTuple(pattern_inverse, object_point), LAMBDA pattern_point :
        PatternAt(pattern, pattern_point)))))

PointLight(position, intensity) ==
    [position |-> position, intensity |-> intensity]

MaterialNew ==
    [color     |-> Color(Scale, Scale, Scale),
     ambient   |-> Scale \div 10,
     diffuse   |-> (9 * Scale) \div 10,
     specular  |-> (9 * Scale) \div 10,
     shininess |-> 200 * Scale,
     pattern   |-> None]

(***************************************************************************)
(* Shapes (shapes.rs).  A shape is held through an Arc: id stands for the  *)
(* identity of the allocation.                                             *)
(***************************************************************************)
SphereNew(id) ==
    [id |-> id, kind |-> "sphere", transform |-> Identity, material |-> MaterialNew]

PlaneNew(id) ==
    [id |-> id, kind |-> "plane", transform |-> Identity, material |-> MaterialNew]

WithTransform(shape, transform) == [shape EXCEPT !.transform = transform]

WithMaterial(shape, material) == [shape EXCEPT !.material = material]

Ray(origin, direction) == [origin |-> origin, direction |-> direction]

\* Sphere::intersect with the two roots in the other order
SphereIntersectFarFirst(ray) ==
    Bind(TSub(ray.origin, Point(0, 0, 0)), LAMBDA sphere_to_ray :
    Bind(Dot(ray.direction, ray.direction), LAMBDA a :
    Bind(FMul(2 * Scale, Dot(ray.direction, sphere_to_ray)), LAMBDA b :
    Bind(Dot(sphere_to_ray, sphere_to_ray) - Scale, LAMBDA c :
    Bind(FMul(b, b) - FMul(FMul(4 * Scale, a), c), LAMBDA discriminant :
        IF discriminant < 0 THEN << >>
        ELSE << FDiv(-b + FSqrt(discriminant), FMul(2 * Scale, a)),
                FDiv(-b - FSqrt(discriminant), FMul(2 * Scale, a)) >>)))))

\* Sphere::intersect: the roots of the quadratic, none for a negative discriminant
SphereIntersect(ray) ==
    Bind(TSub(ray.origin, Point(0, 0, 0)), LAMBDA sphere_to_ray :
    Bind(Dot(ray.direction, ray.direction), LAMBDA a :
    Bind(FMul(2 * Scale, Dot(ray.direction, sphere_to_ray)), LAMBDA b :
    Bind(Dot(sphere_to_ray, sphere_to_ray) - Scale, LAMBDA c :
    Bind(FMul(b, b) - FMul(FMul(4 * Scale, a), c), LAMBDA discriminant :
        IF discriminant < 0 THEN << >>
        ELSE << FDiv(-b - FSqrt(discriminant), FMul(2 * Scale, a)),
                FDiv(-b + FSqrt(discriminant), FMul(2 * Scale, a)) >>)))))

\* Plane::intersect testing direction.y without its absolute value
PlaneIntersectSigned(ray) ==
    IF ray.direction.y < EPSILON THEN << >>
    ELSE << FDiv(-ray.origin.y, ray.direction.y) >>

\* Plane::intersect
PlaneIntersect(ray) ==
    IF Abs(ray.direction.y) < EPSILON THEN << >>
    ELSE << FDiv(-ray.origin.y, ray.direction.y) >>

\* Shape::intersect, dispatched on the variant
LocalIntersect(shape, ray) ==
    IF shape.kind = "sphere" THEN SphereIntersect(ray) ELSE PlaneIntersect(ray)

LocalNormalAt(shape, local_point) ==
    IF shape.kind = "sphere" THEN TSub(local_point, Point(0, 0, 0))
    ELSE Vector(0, Scale, 0)

\* normal_at normalizing the world normal with the w the transposed inverse gave it
NormalAtKeepingW(shape, world_point) ==
    Bind(Unwrap(Inverse(shape.transform)), LAMBDA shape_inverse :
    Bind(MatMulTuple(shape_inverse, world_point), LAMBDA local_point :
    Bind(LocalNormalAt(shape, local_point), LAMBDA local_normal :
    Bind(Transpose(shape_inverse), LAMBDA transposed :
    Bind(MatMulTuple(transposed, local_normal), LAMBDA world_normal :
        Normalize(world_normal))))))

NormalAt(shape, world_point) ==
    Bind(Unwrap(Inverse(shape.transform)), LAMBDA shape_inverse :
    Bind(MatMulTuple(shape_inverse, world_point), LAMBDA local_point :
    Bind(LocalNormalAt(shape, local_point), LAMBDA local_normal :
    Bind(Transpose(shape_inverse), LAMBDA transposed :
    Bind(MatMulTuple(transposed, local_normal), LAMBDA world_normal :
        Normalize(Vector(world_normal.x, world_normal.y, world_normal.z)))))))

(***************************************************************************)
(* Rays and intersections (ray.rs)                                         *)
(***************************************************************************)
Position(ray, t) == TAdd(ray.origin, TScale(ray.direction, t))

RayTransform(ray, m) ==
    Ray(MatMulTuple(m, ray.origin), MatMulTuple(m, ray.direction))

Intersection(t, object) == [t |-> t, object |-> object]

\* Ray::intersect: the ray in object space against the shape, each t tagged
\* with the shape
RayIntersect(ray, s) ==
    Bind(Unwrap(Inverse(s.transform)), LAMBDA s_inverse :
    Bind(RayTransform(ray, s_inverse), LAMBDA local :
    Bind(LocalIntersect(s, local), LAMBDA ts :
        ToVec([k \in 1..Len(ts) |-> Intersection(ts[k], s)]))))

\* the over point, nudged off the surface along the normal
OverPoint(point, normalv) == TAdd(point, TScale(normalv, EPSILON))

\* prepare_computation setting inside and leaving the normal as it is
PrepareComputationUnflipped(i, ray) ==
    Bind(Position(ray, i.t), LAMBDA point :
    Bind(TNeg(ray.direction), LAMBDA eyev :
    Bind(NormalAt(i.object, point), LAMBDA normal :
    Bind(Dot(normal, eyev) < 0, LAMBDA inside :
        [t |-> i.t, object |-> i.object, point |-> point, eyev |-> eyev,
         inside |-> inside, normalv |-> normal,
         over_point |-> OverPoint(point, normal)]))))

PrepareComputation(i, ray) ==
    Bind(Position(ray, i.t), LAMBDA point :
    Bind(TNeg(ray.direction), LAMBDA eyev :
    Bind(NormalAt(i.object, point), LAMBDA normal :
    Bind(Dot(normal, eyev) < 0, LAMBDA inside :
    Bind(IF inside THEN TNeg(normal) ELSE normal, LAMBDA normalv :
        [t |-> i.t, object |-> i.object, point |-> point, eyev |-> eyev,
         inside |-> inside, normalv |-> normalv,
         over_point |-> OverPoint(point, normalv)])))))

RECURSIVE HitLoopNonNegative(_, _, _)
\* HitLoop taking t = 0 for a hit
HitLoopNonNegative(xs, i, lowest_index) ==
    IF i > Len(xs) THEN lowest_index
    ELSE IF xs[i].t >= 0
         THEN IF IsSome(lowest_index)
              THEN IF xs[i].t < xs[Unwrap(lowest_index)].t
                   THEN HitLoopNonNegative(xs, i + 1, Some(i))
                   ELSE HitLoopNonNegative(xs, i + 1, lowest_index)
              ELSE HitLoopNonNegative(xs, i + 1, Some(i))
         ELSE HitLoopNonNegative(xs, i + 1, lowest_index)

RECURSIVE HitLoopLastOfTies(_, _, _)
\* HitLoop moving on to a later member whose t is the same
HitLoopLastOfTies(xs, i, lowest_index) ==
    IF i > Len(xs) THEN lowest_index
    ELSE IF xs[i].t > 0
         THEN IF IsSome(lowest_index)
              THEN IF xs[i].t <= xs[Unwrap(lowest_index)].t
                   THEN HitLoopLastOfTies(xs, i + 1, Some(i))
                   ELSE HitLoopLastOfTies(xs, i + 1, lowest_index)
              ELSE HitLoopLastOfTies(xs, i + 1, Some(i))
         ELSE HitLoopLastOfTies(xs, i + 1, lowest_index)

RECURSIVE HitLoop(_, _, _)
\* the loop of Intersections::hit from position i on, lowest_index being an
\* Option of a position
HitLoop(xs, i, lowest_index) ==
    IF i > Len(xs) THEN lowest_index
    ELSE IF xs[i].t > 0
         THEN IF IsSome(lowest_index)
              THEN IF xs[i].t < xs[Unwrap(lowest_index)].t
                   THEN HitLoop(xs, i + 1, Some(i))
                   ELSE HitLoop(xs, i + 1, lowest_index)
              ELSE HitLoop(xs, i + 1, Some(i))
         ELSE HitLoop(xs, i + 1, lowest_index)

\* Intersections::hit: an Option of an intersection
Hit(xs) ==
    Bind(HitLoop(xs, 1, None), LAMBDA lowest_index :
        IF IsSome(lowest_index) THEN Some(xs[Unwrap(lowest_index)]) ELSE None)

\* Intersections::extend
Extend(xs, other) == xs \o other

RECURSIVE InsertSorted(_, _)
\* x placed behind every member of the sorted xs whose t is not greater
InsertSorted(xs, x) ==
    IF xs = << >> THEN << x >>
    ELSE IF x.t < Head(xs).t THEN << x >> \o xs
         ELSE Bind(Tail(xs), LAMBDA rest : << Head(xs) >> \o InsertSorted(rest, x))

RECURSIVE SortFrom(_, _)
SortFrom(sorted, rest) ==
    IF rest = << >> THEN sorted
    ELSE Bind(InsertSorted(sorted, Head(rest)), LAMBDA inserted :
         Bind(Tail(rest), LAMBDA others : SortFrom(inserted, others)))

\* Intersections::sort: Vec::sort_by on t, a stable sort
Sort(xs) == SortFrom(<< >>, xs)

(***************************************************************************)
(* Lighting (light.rs)                                                     *)
(***************************************************************************)
\* lighting with in_shadown disregarded
LightingTermsUnshadowed(material, object, light, point, eyev, normalv, in_shadown) ==
    Bind(IF IsSome(material.pattern)
         THEN AtObject(Unwrap(material.pattern), object, point)
         ELSE material.color, LAMBDA color :
    Bind(CMul(color, light.intensity), LAMBDA effective_color :
    Bind(Normalize(TSub(light.position, point)), LAMBDA lightv :
    Bind(CScale(effective_color, material.ambient), LAMBDA ambient :
    Bind(Dot(lightv, normalv), LAMBDA light_dot_normal :
    Bind(IF light_dot_normal < 0 THEN << Black, Black >>
         ELSE Bind(CScale(CScale(effective_color, material.diffuse),
                          light_dot_normal), LAMBDA diffuse :
              Bind(Reflect(TNeg(lightv), normalv), LAMBDA reflectv :
              Bind(Dot(reflectv, eyev), LAMBDA reflect_dot_eye :
                  IF reflect_dot_eye <= 0 THEN << diffuse, Black >>
                  ELSE Bind(FPow(reflect_dot_eye, material.shininess), LAMBDA factor :
                           << diffuse,
                              CScale(CScale(light.intensity, material.specular),
                                     factor) >>)))),
         LAMBDA diffuse_specular :
        [ambient  |-> ambient,
         diffuse  |-> diffuse_specular[1],
         specular |-> diffuse_specular[2],
         result   |-> CAdd(CAdd(ambient, diffuse_specular[1]),
                           diffuse_specular[2])]))))))

\* lighting without the test of the side of the surface the light is on
LightingTermsTwoSided(material, object, light, point, eyev, normalv, in_shadown) ==
    Bind(IF IsSome(material.pattern)
         THEN AtObject(Unwrap(material.pattern), object, point)
         ELSE material.color, LAMBDA color :
    Bind(CMul(color, light.intensity), LAMBDA effective_color :
    Bind(Normalize(TSub(light.position, point)), LAMBDA lightv :
    Bind(CScale(effective_color, material.ambient), LAMBDA ambient :
    Bind(Dot(lightv, normalv), LAMBDA light_dot_normal :
    Bind(Bind(CScale(CScale(effective_color, material.diffuse),
                     light_dot_normal), LAMBDA diffuse :
         Bind(Reflect(TNeg(lightv), normalv), LAMBDA reflectv :
         Bind(Dot(reflectv, eyev), LAMBDA reflect_dot_eye :
             IF reflect_dot_eye <= 0 THEN << diffuse, Black >>
             ELSE Bind(FPow(reflect_dot_eye, material.shininess), LAMBDA factor :
                      << diffuse,
                         CScale(CScale(light.intensity, material.specular),
                                factor) >>)))),
         LAMBDA diffuse_specular :
        [ambient  |-> ambient,
         diffuse  |-> diffuse_specular[1],
         specular |-> diffuse_specular[2],
         result   |-> IF in_shadown THEN ambient
                      ELSE CAdd(CAdd(ambient, diffuse_specular[1]),
                                diffuse_specular[2])]))))))

\* lighting with the specular factor not raised to the shininess
LightingTermsUnraised(material, object, light, point, eyev, normalv, in_shadown) ==
    Bind(IF IsSome(material.pattern)
         THEN AtObject(Unwrap(material.pattern), object, point)
         ELSE material.color, LAMBDA color :
    Bind(CMul(color, light.intensity), LAMBDA effective_color :
    Bind(Normalize(TSub(light.position, point)), LAMBDA lightv :
    Bind(CScale(effective_color, material.ambient), LAMBDA ambient :
    Bind(Dot(lightv, normalv), LAMBDA light_dot_normal :
    Bind(IF light_dot_normal < 0 THEN << Black, Black >>
         ELSE Bind(CScale(CScale(effective_color, material.diffuse),
                          light_dot_normal), LAMBDA diffuse :
              Bind(Reflect(TNeg(lightv), normalv), LAMBDA reflectv :
              Bind(Dot(reflectv, eyev), LAMBDA reflect_dot_eye :
                  IF reflect_dot_eye <= 0 THEN << diffuse, Black >>
                  ELSE << diffuse,
                          CScale(CScale(light.intensity, material.specular),
                                 reflect_dot_eye) >>))),
         LAMBDA diffuse_specular :
        [ambient  |-> ambient,
         diffuse  |-> diffuse_specular[1],
         specular |-> diffuse_specular[2],
         result   |-> IF in_shadown THEN ambient
                      ELSE CAdd(CAdd(ambient, diffuse_specular[1]),
                                diffuse_specular[2])]))))))

\* lighting: the three terms of the Phong model and the color returned
LightingTerms(material, object, light, point, eyev, normalv, in_shadown) ==
    Bind(IF IsSome(material.pattern)
         THEN AtObject(Unwrap(material.pattern), object, point)
         ELSE material.color, LAMBDA color :
    Bind(CMul(color, light.intensity), LAMBDA effective_color :
    Bind(Normalize(TSub(light.position, point)), LAMBDA lightv :
    Bind(CScale(effective_color, material.ambient), LAMBDA ambient :
    Bind(Dot(lightv, normalv), LAMBDA light_dot_normal :
    Bind(IF light_dot_normal < 0 THEN << Black, Black >>
         ELSE Bind(CScale(CScale(effective_color, material.diffuse),
                          light_dot_normal), LAMBDA diffuse :
              Bind(Reflect(TNeg(lightv), normalv), LAMBDA reflectv :
              Bind(Dot(reflectv, eyev), LAMBDA reflect_dot_eye :
                  IF reflect_dot_eye <= 0 THEN << diffuse, Black >>
                  ELSE Bind(FPow(reflect_dot_eye, material.shininess), LAMBDA factor :
                           << diffuse,
                              CScale(CScale(light.intensity, material.specular),
                                     factor) >>)))),
         LAMBDA diffuse_specular :
        [ambient  |-> ambient,
         diffuse  |-> diffuse_specular[1],
         specular |-> diffuse_specular[2],
         result   |-> IF in_shadown THEN ambient
                      ELSE CAdd(CAdd(ambient, diffuse_specular[1]),
                                diffuse_specular[2])]))))))

Lighting(material, object, light, point, eyev, normalv, in_shadown) ==
    LightingTerms(material, object, light, point, eyev, normalv, in_shadown).result

(***************************************************************************)
(* The world (world.rs)                                                    *)
(***************************************************************************)
WorldNew == [light |-> None, objects |-> << >>]

RECURSIVE IntersectRest(_, _, _, _)
\* the loop of World::intersect over objects[k..]
IntersectRest(objects, ray, k, intersections) ==
    IF k > Len(objects) THEN intersections
    ELSE Bind(Extend(intersections, RayIntersect(ray, objects[k])), LAMBDA extended :
             IntersectRest(objects, ray, k + 1, extended))

\* World::intersect without its final sort
WorldIntersectUnsorted(world, ray) ==
    IF Len(world.objects) <= 0 THEN << >>
    ELSE Bind(RayIntersect(ray, world.objects[1]), LAMBDA first :
             IntersectRest(world.objects, ray, 2, first))

WorldIntersect(world, ray) ==
    IF Len(world.objects) <= 0 THEN << >>
    ELSE Bind(RayIntersect(ray, world.objects[1]), LAMBDA first :
         Bind(IntersectRest(world.objects, ray, 2, first), LAMBDA intersections :
             Sort(intersections)))

\* is_shadowed taking any hit for a shadow, however far
IsShadowedAnyHit(world, point) ==
    IF IsSome(world.light)
    THEN Bind(Unwrap(world.light), LAMBDA light :
         Bind(TSub(light.position, point), LAMBDA v :
         Bind(Normalize(v), LAMBDA direction :
         Bind(Ray(point, direction), LAMBDA r :
         Bind(WorldIntersect(world, r), LAMBDA intersections :
             IsSome(Hit(intersections)))))))
    ELSE FALSE

IsShadowed(world, point) ==
    IF IsSome(world.light)
    THEN Bind(Unwrap(world.light), LAMBDA light :
         Bind(TSub(light.position, point), LAMBDA v :
         Bind(Magnitude(v), LAMBDA distance :
         Bind(Normalize(v), LAMBDA direction :
         Bind(Ray(point, direction), LAMBDA r :
         Bind(WorldIntersect(world, r), LAMBDA intersections :
         Bind(Hit(intersections), LAMBDA h :
             IF IsSome(h) THEN Unwrap(h).t < distance ELSE FALSE)))))))
    ELSE FALSE

\* shade_hit falling back on a white light at the origin when the world has none
ShadeHitDefaultLight(world, comps) ==
    Bind(IF IsSome(world.light) THEN Unwrap(world.light)
         ELSE PointLight(Point(0, 0, 0), White), LAMBDA light :
    Bind(IsShadowed(world, comps.over_point), LAMBDA is_shadowed :
        [color |-> Lighting(comps.object.material, comps.object, light,
                            comps.point, comps.eyev, comps.normalv, is_shadowed),
         calls |-> << "is_shadowed", "lighting" >>]))

\* shade_hit testing the hit point itself for shadow
ShadeHitTracedAtPoint(world, comps) ==
    IF IsSome(world.light)
    THEN Bind(IsShadowed(world, comps.point), LAMBDA is_shadowed :
             [color |-> Lighting(comps.object.material, comps.object,
                                 Unwrap(world.light), comps.point, comps.eyev,
                                 comps.normalv, is_shadowed),
              calls |-> << "is_shadowed", "lighting" >>])
    ELSE [color |-> Black, calls |-> << >>]

\* World::shade_hit: the color, and the calls made to obtain it
ShadeHitTraced(world, comps) ==
    IF IsSome(world.light)
    THEN Bind(IsShadowed(world, comps.over_point), LAMBDA is_shadowed :
             [color |-> Lighting(comps.object.material, comps.object,
                                 Unwrap(world.light), comps.point, comps.eyev,
                                 comps.normalv, is_shadowed),
              calls |-> << "is_shadowed", "lighting" >>])
    ELSE [color |-> Black, calls |-> << >>]

ShadeHit(world, comps) == ShadeHitTraced(world, comps).color

\* color_at shading the first of the sorted intersections, whatever its t
ColorAtFirst(world, ray) ==
    Bind(WorldIntersect(world, ray), LAMBDA intersections :
        IF intersections # << >>
        THEN Bind(PrepareComputation(intersections[1], ray), LAMBDA comps :
                 ShadeHit(world, comps))
        ELSE Black)

ColorAt(world, ray) ==
    Bind(WorldIntersect(world, ray), LAMBDA intersections :
    Bind(Hit(intersections), LAMBDA hit :
        IF IsSome(hit)
        THEN Bind(PrepareComputation(Unwrap(hit), ray), LAMBDA comps :
                 ShadeHit(world, comps))
        ELSE Black))

(***************************************************************************)
(* The canvas (canvas.rs) and the camera (camera.rs)                       *)
(***************************************************************************)
CanvasNew(width, height) ==
    [width |-> width, height |-> height,
     pixels |-> [k \in 1..(width * height) |-> Color(0, 0, 0)]]

CanvasIndex(canvas, x, y) == y * canvas.width + x

PixelAt(canvas, x, y) == canvas.pixels[CanvasIndex(canvas, x, y) + 1]

\* write_pixel counting the pixels of a column, not of a row, for each step of x
WritePixelByColumn(canvas, x, y, color) ==
    IF x < canvas.width /\ y < canvas.height
    THEN [canvas EXCEPT !.pixels[x * canvas.height + y + 1] = color]
    ELSE canvas

\* write_pixel checking the index against the buffer, not x and y against the sides
WritePixelByIndex(canvas, x, y, color) ==
    IF CanvasIndex(canvas, x, y) < canvas.width * canvas.height
    THEN [canvas EXCEPT !.pixels[CanvasIndex(canvas, x, y) + 1] = color]
    ELSE canvas

WritePixel(canvas, x, y, color) ==
    IF x < canvas.width /\ y < canvas.height
    THEN [canvas EXCEPT !.pixels[CanvasIndex(canvas, x, y) + 1] = color]
    ELSE canvas

MAX_COLOR == 255

\* A String is the sequence of its characters.
DigitChars == << "0", "1", "2", "3", "4", "5", "6", "7", "8", "9" >>

RECURSIVE Digits(_)
\* format!("{}", n) of a usize
Digits(n) ==
    IF n < 10 THEN << DigitChars[n + 1] >>
    ELSE Digits(n \div 10) \o << DigitChars[(n % 10) + 1] >>

RECURSIVE Join(_, _)
\* [String]::join
Join(strings, sep) ==
    IF Len(strings) = 0 THEN << >>
    ELSE IF Len(strings) = 1 THEN strings[1]
    ELSE strings[1] \o sep \o Join(Tail(strings), sep)

\* str::split on one character: the pieces between its occurrences
Split(s, ch) ==
    LET at == { k \in 1..Len(s) : s[k] = ch }
        n  == Cardinality(at)
        Pos(i) == IF i = 0 THEN 0
                  ELSE IF i = n + 1 THEN Len(s) + 1
                  ELSE CHOOSE k \in at : Cardinality({ j \in at : j < k }) = i - 1
    IN  [i \in 1..(n + 1) |-> SubSeq(s, Pos(i - 1) + 1, Pos(i) - 1)]

RECURSIVE TrimStart(_)
TrimStart(s) ==
    IF Len(s) > 0 /\ s[1] \in {" ", "\n"} THEN TrimStart(Tail(s)) ELSE s

RECURSIVE TrimEnd(_)
TrimEnd(s) ==
    IF Len(s) > 0 /\ s[Len(s)] \in {" ", "\n"} THEN TrimEnd(SubSeq(s, 1, Len(s) - 1)) ELSE s

\* str::trim
Trim(s) == TrimEnd(TrimStart(s))

\* Color::value: 255 * f clamped to 0..255, then cut to a usize
ColorValue(f) ==
    Bind(FMul(MAX_COLOR * Scale, f), LAMBDA scaled :
    Bind(IF scaled < 0 THEN 0
         ELSE IF scaled > 255 * Scale THEN 255 * Scale ELSE scaled, LAMBDA clamped :
        clamped \div Scale))

\* Color::ppm_value
PpmValue(color) ==
    Digits(ColorValue(color.red)) \o << " " >> \o Digits(ColorValue(color.green))
        \o << " " >> \o Digits(ColorValue(color.blue))

RECURSIVE WrapLoop(_, _, _, _)
\* the for_each of ppm_pixel_row over the pieces of the line: strings are the
\* lines pushed so far and s the line being filled
WrapLoop(pieces, k, strings, s) ==
    IF k > Len(pieces) THEN [strings |-> strings, s |-> s]
    ELSE Bind(pieces[k], LAMBDA c :
             IF Len(s) + Len(c) > 70
             THEN WrapLoop(pieces, k + 1, Append(strings, Trim(s)), c)
             ELSE WrapLoop(pieces, k + 1, strings, s \o << " " >> \o c))

\* Canvas::ppm_pixel_row
PpmPixelRow(canvas, row) ==
    Bind([i \in 1..canvas.width |-> PpmValue(PixelAt(canvas, i - 1, row))],
         LAMBDA pixel_colors :
    Bind(Join(pixel_colors, << " " >>), LAMBDA line :
        IF Len(line) > 70
        THEN Bind(WrapLoop(Split(line, " "), 1, << >>, << >>), LAMBDA wrapped :
                 Join(IF Len(wrapped.s) > 0
                      THEN Append(wrapped.strings, Trim(wrapped.s))
                      ELSE wrapped.strings,
                      << "\n" >>))
        ELSE line))

\* Canvas::ppm_pixel_content
PpmPixelContent(canvas) ==
    Join([j \in 1..canvas.height |-> PpmPixelRow(canvas, j - 1)], << "\n" >>)

\* Canvas::to_ppm
ToPpm(canvas) ==
    << "P", "3", "\n" >> \o Digits(canvas.width) \o << " " >> \o Digits(canvas.height)
        \o << "\n" >> \o Digits(MAX_COLOR) \o << "\n" >> \o PpmPixelContent(canvas)
        \o << "\n" >>

\* Camera::pixel_size: half_width and half_height
CameraHalves(hsize, vsize, field_of_view) ==
    LET half_view == Tan(FDiv(field_of_view, 2 * Scale))
        aspect    == FDiv(hsize * Scale, vsize * Scale)
    IN  IF aspect >= Scale
        THEN << half_view, FDiv(half_view, aspect) >>
        ELSE << FMul(half_view, aspect), half_view >>

\* Camera::new dividing the height of the view, not its width, by hsize
CameraNewByHeight(hsize, vsize, field_of_view) ==
    LET halves == CameraHalves(hsize, vsize, field_of_view)
    IN  [hsize |-> hsize, vsize |-> vsize, field_of_view |-> field_of_view,
         transform |-> Identity,
         half_width |-> halves[1], half_height |-> halves[2],
         pixel_size |-> FDiv(FMul(halves[2], 2 * Scale), hsize * Scale)]

CameraNew(hsize, vsize, field_of_view) ==
    LET halves == CameraHalves(hsize, vsize, field_of_view)
    IN  [hsize |-> hsize, vsize |-> vsize, field_of_view |-> field_of_view,
         transform |-> Identity,
         half_width |-> halves[1], half_height |-> halves[2],
         pixel_size |-> FDiv(FMul(halves[1], 2 * Scale), hsize * Scale)]

RayForPixel(camera, px, py) ==
    Bind(FMul(px * Scale + Scale \div 2, camera.pixel_size), LAMBDA xoffset :
    Bind(FMul(py * Scale + Scale \div 2, camera.pixel_size), LAMBDA yoffset :
    Bind(camera.half_width - xoffset, LAMBDA world_x :
    Bind(camera.half_height - yoffset, LAMBDA world_y :
    Bind(Unwrap(Inverse(camera.transform)), LAMBDA inverse :
    Bind(MatMulTuple(inverse, Point(world_x, world_y, -Scale)), LAMBDA pixel :
    Bind(MatMulTuple(inverse, Point(0, 0, 0)), LAMBDA origin :
    Bind(Normalize(TSub(pixel, origin)), LAMBDA direction :
        Ray(origin, direction)))))))))

(***************************************************************************)
(* Scenes and cameras.  In the worlds of Worlds every transform has an      *)
(* inverse; every ray has a direction and no point probed for shadow       *)
(* coincides with the light.                                               *)
(***************************************************************************)
\* World::default_world
DefaultWorld ==
    [light   |-> Some(PointLight(Point(-10 * Scale, 10 * Scale, -10 * Scale), White)),
     objects |-> << WithMaterial(SphereNew(1),
                        [MaterialNew EXCEPT !.color = Color((8 * Scale) \div 10, Scale,
                                                            (6 * Scale) \div 10),
                                            !.diffuse = (7 * Scale) \div 10,
                                            !.specular = (2 * Scale) \div 10]),
                    WithTransform(SphereNew(2),
                        Scaling(Scale \div 2, Scale \div 2, Scale \div 2)) >>]

\* two spheres in line with the light, as in
\* test_shade_hit_is_given_an_intersection_in_shadow
ShadowWorld ==
    [light   |-> Some(PointLight(Point(0, 0, -3 * Scale), White)),
     objects |-> << SphereNew(1),
                    WithTransform(SphereNew(2), Translation(0, 0, 3 * Scale)) >>]

\* a striped floor under a sphere
PlaneWorld ==
    [light   |-> Some(PointLight(Point(0, 2 * Scale, -3 * Scale), White)),
     objects |-> << WithMaterial(WithTransform(PlaneNew(1), Translation(0, -Scale, 0)),
                        [MaterialNew EXCEPT !.pattern =
                            Some(StripePattern(White, Color(Scale, 0, 0)))]),
                    SphereNew(2) >>]

\* the default world with its light removed
DarkWorld == [DefaultWorld EXCEPT !.light = None]

\* a light and no object
EmptyWorld == [WorldNew EXCEPT !.light = DefaultWorld.light]

Worlds == {DefaultWorld, ShadowWorld, PlaneWorld, DarkWorld, EmptyWorld, WorldNew}

\* the default world with its second sphere flattened: a transform without inverse
FlatWorld ==
    [DefaultWorld EXCEPT !.objects[2] =
        WithTransform(SphereNew(2), Scaling(Scale, 0, Scale))]

RenderWorlds == {DefaultWorld, PlaneWorld, FlatWorld}

PiOver2 == (1571 * Scale) \div 1000

\* view_transform(from (0, 0, -5), to the origin, up y)
ViewTransform ==
    MatMul(Scaling(-Scale, Scale, -Scale), Translation(0, 0, 5 * Scale))

CameraWith(hsize, vsize, field_of_view, transform) ==
    [CameraNew(hsize, vsize, field_of_view) EXCEPT !.transform = transform]

MaxSide == 2

\* the cameras of at most MaxSide by MaxSide pixels looking at the origin from
\* z = -5
Cameras ==
    { CameraWith(hsize, vsize, PiOver2 \div 3, ViewTransform) :
        hsize \in 1..MaxSide, vsize \in 1..MaxSide }

\* a camera whose transform has no inverse
SquashedCamera == CameraWith(MaxSide, 1, PiOver2 \div 3, Scaling(Scale, 0, Scale))

MaxPixels == MaxSide * MaxSide

DefaultCamera == CameraWith(2, 2, PiOver2 \div 3, ViewTransform)

NumWorkers == 2

Workers == 1..NumWorkers

(***************************************************************************)
(* State                                                                   *)
(***************************************************************************)
VARIABLES
    world,      \* the World handed to render
    camera,     \* the Camera render is called on
    pc,         \* where render is: "idle", "map", "write", "done", "panicked"
    started,    \* the world and camera as they were when render was called
    image,      \* render's canvas
    pending,    \* the pixel indices no worker has taken yet
    workers,    \* per worker, the pixel it is computing (an Option)
    results,    \* the slots collect() fills, one per pixel index (Options)
    pixels,     \* the collected Vec<Color>
    wi,         \* the position of the write loop
    computed,   \* per pixel index, how many times its color was computed
    reordered,  \* whether some result was stored before that of a lower index
    written,    \* the write_pixel calls made, in order: <<i, x, y>>
    xs,         \* an Intersections value under test
    call        \* the last call of a pure function: its arguments and result

vars == << world, camera, pc, started, image, pending, workers, results, pixels,
           wi, computed, reordered, written, xs, call >>

NoCall == [op |-> "none"]

renderVars == << pc, started, image, pending, workers, results, pixels, wi,
                 computed, reordered, written >>

InitRender ==
    /\ pc = "idle"
    /\ started = None
    /\ image = None
    /\ pending = {}
    /\ workers = [w \in Workers |-> None]
    /\ results = << >>
    /\ pixels = << >>
    /\ wi = 0
    /\ computed = << >>
    /\ reordered = FALSE
    /\ written = << >>

Init ==
    /\ world \in RenderWorlds
    /\ camera \in Cameras \cup {SquashedCamera}
    /\ InitRender
    /\ xs = << >>
    /\ call = NoCall

(***************************************************************************)
(* Camera::render                                                          *)
(***************************************************************************)
\* the pixel a pixel index stands for
PixelX(c, i) == i % c.hsize

PixelYByRows(c, i) == i \div c.vsize

PixelY(c, i) == i \div c.hsize

\* the slot of the collected Vec that receives the result of index i:
\* collect() on an indexed parallel iterator keeps the order of the indices
CollectSlotByCompletion(i, slots) ==
    Cardinality({ k \in 1..Len(slots) : IsSome(slots[k]) })

CollectSlot(i, slots) == i

\* let mut image = Canvas::new(..); the parallel iterator over 0..n_pixels starts
RenderCall ==
    /\ pc = "idle"
    /\ pc' = "map"
    /\ started' = Some([world |-> world, camera |-> camera])
    /\ image' = Some(CanvasNew(camera.hsize, camera.vsize))
    /\ LET n_pixels == camera.hsize * camera.vsize
       IN  /\ pending' = 0..(n_pixels - 1)
           /\ results' = [k \in 1..n_pixels |-> None]
           /\ computed' = [k \in 1..n_pixels |-> 0]
    /\ UNCHANGED << world, camera, workers, pixels, wi, reordered, written, xs, call >>

\* a worker takes a pixel index and builds its ray; ray_for_pixel unwraps the
\* inverse of the camera's transform, and the panic of a task ends the render
WorkerTake(w, i) ==
    /\ pc = "map"
    /\ workers[w] = None
    /\ i \in pending
    /\ IF IsInvertible(camera.transform)
       THEN /\ pending' = pending \ {i}
            /\ LET x == PixelX(camera, i)
                   y == PixelY(camera, i)
               IN  workers' = [workers EXCEPT ![w] =
                                  Some([i |-> i, ray |-> RayForPixel(camera, x, y)])]
            /\ pc' = pc
       ELSE /\ pc' = "panicked"
            /\ UNCHANGED << pending, workers >>
    /\ UNCHANGED << world, camera, started, image, results, pixels, wi,
                    computed, reordered, written, xs, call >>

\* whether color_at unwraps the inverse of a transform that has none: it
\* intersects the ray with every object of the world
ColorAtPanics(w) ==
    \E k \in 1..Len(w.objects) : ~ IsInvertible(w.objects[k].transform)

\* WorkerFinish with a world.intersect that orders the world's objects in place
WorkerFinishReordering(w) ==
    /\ pc = "map"
    /\ workers[w] # None
    /\ IF ColorAtPanics(world)
       THEN /\ pc' = "panicked"
            /\ UNCHANGED << world, workers, results, computed, reordered >>
       ELSE /\ LET job == Unwrap(workers[w])
                   c   == ColorAt(world, job.ray)
               IN  /\ results' = [results EXCEPT
                                    ![CollectSlot(job.i, results) + 1] = Some(c)]
                   /\ computed' = [computed EXCEPT ![job.i + 1] = @ + 1]
                   /\ reordered' =
                         (reordered \/ \E k \in 1..job.i : results[k] = None)
            /\ workers' = [workers EXCEPT ![w] = None]
            /\ world' = [world EXCEPT !.objects =
                            [k \in 1..Len(@) |-> @[Len(@) + 1 - k]]]
            /\ pc' = pc
    /\ UNCHANGED << camera, started, image, pending, pixels, wi,
                    written, xs, call >>

\* the worker resolves the color of its ray; the result goes to its slot
WorkerFinish(w) ==
    /\ pc = "map"
    /\ workers[w] # None
    /\ IF ColorAtPanics(world)
       THEN /\ pc' = "panicked"
            /\ UNCHANGED << workers, results, computed, reordered >>
       ELSE /\ LET job == Unwrap(workers[w])
                   c   == ColorAt(world, job.ray)
               IN  /\ results' = [results EXCEPT
                                    ![CollectSlot(job.i, results) + 1] = Some(c)]
                   /\ computed' = [computed EXCEPT ![job.i + 1] = @ + 1]
                   /\ reordered' =
                         (reordered \/ \E k \in 1..job.i : results[k] = None)
            /\ workers' = [workers EXCEPT ![w] = None]
            /\ pc' = pc
    /\ UNCHANGED << world, camera, started, image, pending, pixels, wi,
                    written, xs, call >>

\* collect() returns once every index has been mapped
Collect ==
    /\ pc = "map"
    /\ pending = {}
    /\ \A w \in Workers : workers[w] = None
    /\ pixels' = [k \in 1..Len(results) |->
                    IF IsSome(results[k]) THEN Unwrap(results[k]) ELSE Black]
    /\ pc' = "write"
    /\ wi' = 0
    /\ UNCHANGED << world, camera, started, image, pending, workers, results,
                    computed, reordered, written, xs, call >>

\* one turn of pixels.iter().enumerate().for_each
WriteStep ==
    /\ pc = "write"
    /\ wi < Len(pixels)
    /\ LET x == PixelX(camera, wi)
           y == PixelY(camera, wi)
       IN  /\ image' = Some(WritePixel(Unwrap(image), x, y, pixels[wi + 1]))
           /\ written' = Append(written, << wi, x, y >>)
    /\ wi' = wi + 1
    /\ UNCHANGED << world, camera, pc, started, pending, workers, results, pixels,
                    computed, reordered, xs, call >>

\* render returns the image
Return ==
    /\ pc = "write"
    /\ wi = Len(pixels)
    /\ pc' = "done"
    /\ UNCHANGED << world, camera, started, image, pending, workers, results,
                    pixels, wi, computed, reordered, written, xs, call >>

Next ==
    \/ RenderCall
    \/ \E w \in Workers, i \in 0..(MaxPixels - 1) : WorkerTake(w, i)
    \/ \E w \in Workers : WorkerFinish(w)
    \/ Collect
    \/ WriteStep
    \/ Return

Spec == Init /\ [][Next]_vars

\* the thread pool runs every task it was given and the write loop advances
FairSpec == Spec /\ WF_vars(Next)

(***************************************************************************)
(* C1.  Whatever the order and interleaving in which the workers compute   *)
(* the pixels, the canvas render returns holds at every (x, y) the color   *)
(* world.color_at(camera.ray_for_pixel(x, y)).                             *)
(***************************************************************************)
RenderedImageIsColorAt ==
    pc = "done" =>
        \A x \in 0..(camera.hsize - 1), y \in 0..(camera.vsize - 1) :
            Bind(RayForPixel(camera, x, y), LAMBDA ray :
                PixelAt(Unwrap(image), x, y) = ColorAt(world, ray))

\* a render returned whose results arrived out of index order and whose image
\* is not of one color
RenderedOutOfOrder ==
    /\ pc = "done"
    /\ reordered
    /\ \E k \in 1..Len(pixels) : pixels[k] # pixels[1]

(***************************************************************************)
(* C2.  From the call of render on, through every step and at its end, the *)
(* world and the camera are what they were when render was called.         *)
(***************************************************************************)
WorldAndCameraReadOnly ==
    IsSome(started) =>
        /\ world = Unwrap(started).world
        /\ camera = Unwrap(started).camera

\* a render of a lit world of two objects has returned
RenderedLitWorld ==
    /\ pc = "done"
    /\ IsSome(started)
    /\ IsSome(world.light)
    /\ Len(world.objects) = 2

(***************************************************************************)
(* RenderComplete: every pixel index was computed once and written once,   *)
(* index i to the slot (i mod hsize, i div hsize), each slot of the grid   *)
(* being written by exactly one index; the canvas has the camera's width   *)
(* and height.                                                             *)
(***************************************************************************)
RenderComplete ==
    LET n == camera.hsize * camera.vsize
    IN  /\ Len(computed) = n
        /\ \A i \in 0..(n - 1) : computed[i + 1] = 1
        /\ Len(written) = n
        /\ \A i \in 0..(n - 1) :
              /\ Cardinality({ k \in 1..Len(written) : written[k][1] = i }) = 1
              /\ \E k \in 1..Len(written) :
                    written[k] = << i, i % camera.hsize, i \div camera.hsize >>
        /\ \A x \in 0..(camera.hsize - 1), y \in 0..(camera.vsize - 1) :
              Cardinality({ k \in 1..Len(written) :
                              written[k][2] = x /\ written[k][3] = y }) = 1
        /\ Unwrap(image).width = camera.hsize
        /\ Unwrap(image).height = camera.vsize
        /\ Len(Unwrap(image).pixels) = n

\* C3: render always terminates, and when it has terminated every pixel index
\* has been computed and written exactly once to its slot and the canvas
\* returned has the camera's width and height: render never ends in another
\* way than by returning the complete canvas.
RenderEndsComplete ==
    /\ pc # "panicked"
    /\ pc = "done" => RenderComplete

\* what remains of it under the unwrap of a missing inverse: render ends, by
\* returning or by the panic, and a render that returns is complete
RenderTerminatesComplete ==
    /\ <>(pc \in {"done", "panicked"})
    /\ [](pc = "done" => RenderComplete)

\* a render of a camera wider than high has returned
RenderedWideCamera ==
    /\ pc = "done"
    /\ camera.hsize > camera.vsize
    /\ Len(written) = camera.hsize * camera.vsize

(***************************************************************************)
(* Intersections::hit, called on every intersection set of at most MaxLen  *)
(* members                                                                 *)
(***************************************************************************)
MaxLen == 3

\* the t of the members: negative, zero, the least positive number, one
HitTs == {-Scale, 0, 1, Scale}

HitMembers == { Intersection(t, SphereNew(id)) : t \in HitTs, id \in {1, 2} }

IntersectionSets ==
    UNION { [1..n -> HitMembers] : n \in 0..MaxLen }

InitHit ==
    /\ world = WorldNew
    /\ camera = DefaultCamera
    /\ InitRender
    /\ xs \in IntersectionSets
    /\ call = NoCall

CallHit ==
    /\ call = NoCall
    /\ call' = [op |-> "hit", result |-> Hit(xs)]
    /\ UNCHANGED << world, camera, renderVars, xs >>

NextHit == CallHit

SpecHit == InitHit /\ [][NextHit]_vars

(***************************************************************************)
(* C4.  hit returns a member whose t is strictly positive and is the least *)
(* of the strictly positive t of the set, whatever the order of the set,   *)
(* and returns None exactly when no member has t > 0.                      *)
(***************************************************************************)
HitIsLowestPositive ==
    call.op = "hit" =>
        LET positive == { k \in 1..Len(xs) : xs[k].t > 0 }
        IN  IF positive = {}
            THEN call.result = None
            ELSE /\ IsSome(call.result)
                 /\ Unwrap(call.result).t > 0
                 /\ \E k \in positive : xs[k] = Unwrap(call.result)
                 /\ \A k \in positive : Unwrap(call.result).t <= xs[k].t

\* hit has picked the least positive t of a set that holds a t = 0 and, before
\* the hit, a greater positive t
HitBehindZeroAndGreater ==
    /\ call.op = "hit"
    /\ IsSome(call.result)
    /\ \E j \in 1..Len(xs) : xs[j].t = 0
    /\ xs[1].t > Unwrap(call.result).t

(***************************************************************************)
(* The operations of a world, each called on every world of Worlds with    *)
(* rays and points along the axes                                          *)
(***************************************************************************)
RayOrigins ==
    { Point(0, 0, -5 * Scale), Point(0, 0, -Scale), Point(0, 0, 0),
      Point(0, 0, 5 * Scale), Point(2 * Scale, 0, 0) }

RayDirections ==
    { Vector(0, 0, Scale), Vector(0, -Scale, 0), Vector(0, Scale, 0) }

Rays == { Ray(origin, direction) : origin \in RayOrigins, direction \in RayDirections }

\* the points probed for shadow: behind the objects, beyond the light of
\* ShadowWorld, in front of the objects and off their axis
ShadowPoints ==
    { Point(0, 0, 5 * Scale), Point(0, 0, -5 * Scale), Point(0, 0, -2 * Scale),
      Point(0, 5 * Scale, 0) }

\* the intersections shade_hit is given the computation of: those of the ray
\* with an object of the world, or with a sphere of its own
ShadedIntersections(w, ray) ==
    LET objects == { w.objects[k] : k \in 1..Len(w.objects) } \cup {SphereNew(9)}
    IN  UNION { { RayIntersect(ray, object)[k] :
                    k \in 1..Len(RayIntersect(ray, object)) } : object \in objects }

InitWorld ==
    /\ world \in Worlds
    /\ camera = DefaultCamera
    /\ InitRender
    /\ xs = << >>
    /\ call = NoCall

CallIntersect(ray) ==
    /\ call = NoCall
    /\ call' = [op |-> "intersect", ray |-> ray,
                result |-> WorldIntersect(world, ray)]
    /\ UNCHANGED << world, camera, renderVars, xs >>

CallColorAt(ray) ==
    /\ call = NoCall
    /\ call' = [op |-> "color_at", ray |-> ray, result |-> ColorAt(world, ray)]
    /\ UNCHANGED << world, camera, renderVars, xs >>

CallIsShadowed(point) ==
    /\ call = NoCall
    /\ call' = [op |-> "is_shadowed", point |-> point,
                result |-> IsShadowed(world, point)]
    /\ UNCHANGED << world, camera, renderVars, xs >>

CallShadeHit(ray) ==
    /\ call = NoCall
    /\ \E i \in ShadedIntersections(world, ray) :
          \E comps \in { PrepareComputation(i, ray) } :
              call' = [op |-> "shade_hit", comps |-> comps,
                       result |-> ShadeHitTraced(world, comps)]
    /\ UNCHANGED << world, camera, renderVars, xs >>

NextWorld ==
    \/ \E ray \in Rays : CallIntersect(ray)
    \/ \E ray \in Rays : CallColorAt(ray)
    \/ \E point \in ShadowPoints : CallIsShadowed(point)
    \/ \E ray \in Rays : CallShadeHit(ray)

SpecWorld == InitWorld /\ [][NextWorld]_vars

RECURSIVE SumOver(_, _)
\* f[1] + ... + f[n]
SumOver(f, n) == IF n = 0 THEN 0 ELSE f[n] + SumOver(f, n - 1)

\* the number of positions of s that hold v
Occurrences(s, v) == Cardinality({ k \in 1..Len(s) : s[k] = v })

\* the intersections of the ray with each object of w, object by object
PerObject(w, ray) ==
    ToVec([k \in 1..Len(w.objects) |-> RayIntersect(ray, w.objects[k])])

\* C5: World::intersect returns exactly the intersections of the ray with each
\* object of the world: as many as the per-object counts add up to, each one
\* as often as the objects yield it and nothing else, none for an empty world;
\* and it returns them in non-decreasing order of t.
IntersectIsSortedUnion ==
    call.op = "intersect" =>
        Bind(PerObject(world, call.ray), LAMBDA per :
            /\ Len(call.result)
                  = SumOver([k \in 1..Len(per) |-> Len(per[k])], Len(per))
            /\ \A k \in 1..Len(per) : \A j \in 1..Len(per[k]) :
                  Occurrences(call.result, per[k][j])
                     = SumOver([m \in 1..Len(per) |-> Occurrences(per[m], per[k][j])],
                               Len(per))
            /\ \A j \in 1..Len(call.result) :
                  \E k \in 1..Len(per) : \E m \in 1..Len(per[k]) :
                     call.result[j] = per[k][m]
            /\ (world.objects = << >> => call.result = << >>)
            /\ \A j \in 1..(Len(call.result) - 1) :
                  call.result[j].t <= call.result[j + 1].t)

\* the ray has crossed both objects of a world and the sort has moved an
\* intersection of the second object in front of one of the first
IntersectInterleaved ==
    /\ call.op = "intersect"
    /\ Len(world.objects) = 2
    /\ Len(call.result) = 4
    /\ call.result[2].object = world.objects[2]
    /\ call.result[4].object = world.objects[1]

\* C6: World::color_at returns black when no intersection of the world with
\* the ray has t > 0, and otherwise shade_hit of the computation prepared from
\* an intersection whose t is the least of the strictly positive ones.
ColorAtShadesNearestPositive ==
    call.op = "color_at" =>
        Bind(WorldIntersect(world, call.ray), LAMBDA ints :
        Bind({ k \in 1..Len(ints) : ints[k].t > 0 }, LAMBDA positive :
            IF positive = {} THEN call.result = Black
            ELSE \E k \in positive :
                    /\ \A j \in positive : ints[k].t <= ints[j].t
                    /\ call.result
                          = ShadeHit(world, PrepareComputation(ints[k], call.ray))))

\* color_at has shaded a hit that intersections with negative t precede, and
\* the color differs from the one the first intersection would be given
ColorAtPastNegative ==
    /\ call.op = "color_at"
    /\ call.result # Black
    /\ Bind(WorldIntersect(world, call.ray), LAMBDA ints :
          /\ ints # << >>
          /\ ints[1].t < 0
          /\ call.result # ShadeHit(world, PrepareComputation(ints[1], call.ray)))

\* C7: World::is_shadowed is true exactly when the least strictly positive t
\* of the ray from the point toward the light is less than the distance to
\* the light; intersections at or beyond the light, or behind the point, leave
\* it false, and so does a world without a light.
IsShadowedIffHitBeforeLight ==
    call.op = "is_shadowed" =>
        IF world.light = None THEN call.result = FALSE
        ELSE Bind(TSub(Unwrap(world.light).position, call.point), LAMBDA v :
             Bind(Magnitude(v), LAMBDA distance :
             Bind(WorldIntersect(world, Ray(call.point, Normalize(v))), LAMBDA ints :
             Bind({ ints[k].t : k \in 1..Len(ints) }, LAMBDA ts :
             Bind({ t \in ts : t > 0 }, LAMBDA positive :
                 /\ call.result
                       = (\E t \in positive :
                             /\ \A u \in positive : t <= u
                             /\ t < distance)
                 /\ (\A t \in ts : t <= 0 \/ t >= distance)
                       => call.result = FALSE)))))

\* is_shadowed has answered false for a point whose ray toward the light
\* meets objects, all of them beyond the light
NotShadowedByObjectBeyondLight ==
    /\ call.op = "is_shadowed"
    /\ world.light # None
    /\ call.result = FALSE
    /\ Bind(TSub(Unwrap(world.light).position, call.point), LAMBDA v :
          \E i \in 1..Len(WorldIntersect(world, Ray(call.point, Normalize(v)))) :
             WorldIntersect(world, Ray(call.point, Normalize(v)))[i].t
                >= Magnitude(v))

\* C8: in a world without a light, World::shade_hit returns black for every
\* computation, and makes neither the shadow test nor the lighting evaluation.
ShadeHitWithoutLightIsBlack ==
    (call.op = "shade_hit" /\ world.light = None) =>
        /\ call.result.color = Black
        /\ call.result.calls = << >>

\* shade_hit has been given the computation of a hit in front of the ray in a
\* world that has objects and no light
ShadedWithoutLight ==
    /\ call.op = "shade_hit"
    /\ world.light = None
    /\ world.objects # << >>
    /\ call.comps.t > 0
    /\ \E k \in 1..Len(world.objects) : call.comps.object = world.objects[k]

(***************************************************************************)
(* lighting, called once on a material, a light, a point of a unit sphere, *)
(* an eye vector, a normal and a shadow flag                               *)
(***************************************************************************)
StripedMaterial ==
    [MaterialNew EXCEPT !.pattern = Some(StripePattern(White, Color(0, 0, Scale)))]

Materials ==
    { [MaterialNew EXCEPT !.diffuse = diffuse, !.specular = specular,
                          !.shininess = shininess] :
         diffuse \in {0, (9 * Scale) \div 10},
         specular \in {0, (9 * Scale) \div 10},
         shininess \in {10 * Scale, 200 * Scale} }
    \cup {StripedMaterial}

Lights ==
    { PointLight(position, intensity) :
         position \in { Point(0, 0, -10 * Scale), Point(0, 10 * Scale, -10 * Scale),
                        Point(0, 0, 10 * Scale) },
         intensity \in { White, Color(Scale \div 2, Scale \div 2, Scale \div 2) } }

EyeVectors ==
    { Vector(0, 0, -Scale), Vector(0, 707, -707), Vector(0, -707, -707) }

Normals == { Vector(0, 0, -Scale), Vector(0, 0, Scale) }

LitPoints == { Point(0, 0, 0), Point((3 * Scale) \div 2, 0, 0) }

InitLighting ==
    /\ world = WorldNew
    /\ camera = DefaultCamera
    /\ InitRender
    /\ xs = << >>
    /\ call = NoCall

CallLighting(material, light, point, eyev, normalv, in_shadown) ==
    /\ call = NoCall
    /\ call' = [op |-> "lighting", material |-> material,
                object |-> WithMaterial(SphereNew(1), material), light |-> light,
                point |-> point, eyev |-> eyev, normalv |-> normalv,
                in_shadown |-> in_shadown,
                terms |-> LightingTerms(material, WithMaterial(SphereNew(1), material),
                                        light, point, eyev, normalv, in_shadown)]
    /\ UNCHANGED << world, camera, renderVars, xs >>

NextLighting ==
    \E material \in Materials, light \in Lights, point \in LitPoints,
       eyev \in EyeVectors, normalv \in Normals, in_shadown \in BOOLEAN :
        CallLighting(material, light, point, eyev, normalv, in_shadown)

SpecLighting == InitLighting /\ [][NextLighting]_vars

\* the ambient term of a call of lighting: the color of the material, or of
\* its pattern at the point, times the intensity of the light, times ambient
AmbientOf(c) ==
    CScale(CMul(IF IsSome(c.material.pattern)
                THEN AtObject(Unwrap(c.material.pattern), c.object, c.point)
                ELSE c.material.color,
                c.light.intensity),
           c.material.ambient)

\* C9: lighting called with in_shadown = true returns exactly the ambient
\* term, whatever the light position, eye vector, normal, diffuse, specular
\* and shininess.
ShadowedLightingIsAmbient ==
    (call.op = "lighting" /\ call.in_shadown) =>
        call.terms.result = AmbientOf(call)

\* lighting has been called in shadow on a surface that faces the light and
\* the eye, so that its diffuse and specular terms are not black
ShadowedFacingLight ==
    /\ call.op = "lighting"
    /\ call.in_shadown
    /\ call.terms.diffuse # Black
    /\ call.terms.specular # Black

\* C10: lighting called with in_shadown = false and a negative dot product of
\* the light vector and the normal has black diffuse and specular terms and
\* returns the ambient term alone.
LightBehindSurfaceIsAmbient ==
    (/\ call.op = "lighting"
     /\ ~call.in_shadown
     /\ Dot(Normalize(TSub(call.light.position, call.point)), call.normalv) < 0) =>
        /\ call.terms.diffuse = Black
        /\ call.terms.specular = Black
        /\ call.terms.result = AmbientOf(call)

\* lighting has been called out of shadow, with the light behind the surface,
\* on a material whose diffuse and specular coefficients are not zero
LitFromBehind ==
    /\ call.op = "lighting"
    /\ ~call.in_shadown
    /\ Dot(Normalize(TSub(call.light.position, call.point)), call.normalv) < 0
    /\ call.material.diffuse > 0
    /\ call.material.specular > 0

(***************************************************************************)
(* The operations of Matrix, each called once on matrices of whole-number  *)
(* elements, on which the fixed-point arithmetic is exact                  *)
(***************************************************************************)
\* the matrix of the whole numbers ns
Whole(ns) == MatrixNew([k \in 1..Len(ns) |-> ns[k] * Scale])

\* a quarter turn about z
QuarterTurn == Whole(<< 0, -1, 0, 0,   1, 0, 0, 0,   0, 0, 1, 0,   0, 0, 0, 1 >>)

UpperShear == Shearing(Scale, 2 * Scale, 0, -Scale, 0, 0)

LowerShear == Shearing(0, 0, Scale, 0, -2 * Scale, Scale)

\* determinant 1, no zero off the diagonal of its upper left 3 by 3
Dense == MatMul(Translation(Scale, -2 * Scale, 3 * Scale), MatMul(UpperShear, LowerShear))

\* 4 by 4, determinant 1 or -1: the elements of the inverse are whole numbers
Unimodular4 ==
    { Identity, Translation(Scale, 2 * Scale, 3 * Scale), Scaling(Scale, -Scale, Scale),
      QuarterTurn, UpperShear, LowerShear, Dense, ViewTransform }

\* 4 by 4 with an inverse
Invertible4 ==
    Unimodular4
    \cup { Scaling(2 * Scale, 3 * Scale, 4 * Scale),
           Scaling(Scale \div 10, Scale \div 10, Scale \div 10) }

\* 4 by 4 without an inverse
Singular4 ==
    { Scaling(Scale, 0, Scale),
      Whole(<< -4, 2, -2, -3,   9, 6, 2, 6,   0, -5, 1, -5,   0, 0, 0, 0 >>),
      Whole(<< 0, 0, 0, 0,   0, 0, 0, 0,   0, 0, 0, 0,   0, 0, 0, 0 >>) }

\* 3 by 3: determinant 1, determinant -196, determinant 0
Square3 ==
    { Whole(<< 1, 2, 3,   0, 1, 4,   5, 6, 0 >>),
      Whole(<< 1, 2, 6,   -5, 8, -4,   2, 6, 4 >>),
      Whole(<< 1, 2, 3,   2, 4, 6,   0, 1, 1 >>),
      Whole(<< 1, 2, 3,   4, 5, 6,   7, 8, 9 >>),
      Whole(<< 1, 0, 0,   0, 1, 0,   0, 0, 1 >>) }

\* 2 by 2: determinant 1, determinant -2, determinant 0
Square2 ==
    { Whole(<< 2, 1,   1, 1 >>), Whole(<< 1, 2,   3, 4 >>), Whole(<< 1, 2,   2, 4 >>),
      Whole(<< 1, 0,   0, 1 >>) }

SquareMatrices == Square2 \cup Square3 \cup Invertible4 \cup Singular4

\* the matrices of determinant 1 or -1, of every size
Unimodular == { m \in SquareMatrices : Abs(Determinant(m)) = Scale }

\* the element slices Matrix::new is called on: of 0, 1, 3, 4, 5, 9, 12 and 16
\* elements
ElementSlices ==
    { [k \in 1..n |-> k * Scale] : n \in {0, 1, 3, 4, 5, 9, 12, 16} }

MatrixTuples ==
    { Point(Scale, 2 * Scale, 3 * Scale), Point(-2 * Scale, 0, Scale),
      Vector(Scale, 0, -2 * Scale), Tuple(2 * Scale, -Scale, 3 * Scale, 2 * Scale) }

InitMatrix ==
    /\ world = WorldNew
    /\ camera = DefaultCamera
    /\ InitRender
    /\ xs = << >>
    /\ call = NoCall

CallNew(elements) ==
    /\ call = NoCall
    /\ call' = [op |-> "new", elements |-> elements, result |-> MatrixNew(elements)]
    /\ UNCHANGED << world, camera, renderVars, xs >>

CallTranspose(m) ==
    /\ call = NoCall
    /\ \E t \in { Transpose(m) } :
          call' = [op |-> "transpose", m |-> m, result |-> t, twice |-> Transpose(t)]
    /\ UNCHANGED << world, camera, renderVars, xs >>

CallSubmatrix(m, row, col) ==
    /\ call = NoCall
    /\ call' = [op |-> "submatrix", m |-> m, row |-> row, col |-> col,
                result |-> Submatrix(m, row, col)]
    /\ UNCHANGED << world, camera, renderVars, xs >>

CallInverse(m) ==
    /\ call = NoCall
    /\ call' = [op |-> "inverse", m |-> m, result |-> Inverse(m),
                is_invertible |-> IsInvertible(m)]
    /\ UNCHANGED << world, camera, renderVars, xs >>

CallMul(a, b) ==
    /\ call = NoCall
    /\ a.size = b.size
    /\ call' = [op |-> "mul", a |-> a, b |-> b, result |-> MatMul(a, b)]
    /\ UNCHANGED << world, camera, renderVars, xs >>

CallEq(a, b) ==
    /\ call = NoCall
    /\ call' = [op |-> "eq", a |-> a, b |-> b, result |-> MatrixEq(a, b)]
    /\ UNCHANGED << world, camera, renderVars, xs >>

\* m.inverse().unwrap() * (m * t)
CallInverseOfProduct(m, t) ==
    /\ call = NoCall
    /\ IsInvertible(m)
    /\ \E inverse \in { Unwrap(Inverse(m)) } :
          call' = [op |-> "inverse_of_product", m |-> m, t |-> t,
                   result |-> MatMulTuple(inverse, MatMulTuple(m, t))]
    /\ UNCHANGED << world, camera, renderVars, xs >>

\* (a * b) * b.inverse().unwrap()
CallProductByInverse(a, b) ==
    /\ call = NoCall
    /\ a.size = b.size
    /\ IsInvertible(b)
    /\ \E inverse \in { Unwrap(Inverse(b)) } : \E product \in { MatMul(a, b) } :
          call' = [op |-> "product_by_inverse", a |-> a, b |-> b,
                   result |-> MatMul(product, inverse)]
    /\ UNCHANGED << world, camera, renderVars, xs >>

\* (c * b * a) * p
CallChain(a, b, c, p) ==
    /\ call = NoCall
    /\ \E cb \in { MatMul(c, b) } : \E cba \in { MatMul(cb, a) } :
          call' = [op |-> "chain", a |-> a, b |-> b, c |-> c, p |-> p,
                   result |-> MatMulTuple(cba, p)]
    /\ UNCHANGED << world, camera, renderVars, xs >>

ChainTransforms ==
    { Translation(Scale, 2 * Scale, 3 * Scale), Scaling(2 * Scale, 3 * Scale, 4 * Scale),
      QuarterTurn, UpperShear }

NextMatrix ==
    \/ \E elements \in ElementSlices : CallNew(elements)
    \/ \E m \in SquareMatrices : CallTranspose(m)
    \/ \E m \in SquareMatrices : \E row, col \in 0..(m.size - 1) :
          CallSubmatrix(m, row, col)
    \/ \E m \in SquareMatrices : CallInverse(m)
    \/ \E a, b \in SquareMatrices : CallMul(a, b)
    \/ \E a, b \in SquareMatrices : CallEq(a, b)
    \/ \E m \in Unimodular4, t \in MatrixTuples : CallInverseOfProduct(m, t)
    \/ \E a \in SquareMatrices, b \in Unimodular : CallProductByInverse(a, b)
    \/ \E a, b, c \in ChainTransforms, p \in MatrixTuples : CallChain(a, b, c, p)

SpecMatrix == InitMatrix /\ [][NextMatrix]_vars

\* C11: Matrix::inverse returns None exactly when the determinant is less than
\* epsilon away from zero and a matrix otherwise, and is_invertible is true
\* exactly when inverse returns a matrix: a singular matrix yields none.
InverseNoneIffSingular ==
    call.op = "inverse" =>
        /\ (call.result = None) = (Abs(Determinant(call.m)) < EPSILON)
        /\ call.is_invertible = IsSome(call.result)
        /\ Determinant(call.m) = 0 => call.result = None
        /\ IsSome(call.result) => Unwrap(call.result).size = call.m.size

\* inverse has refused a 4 by 4 matrix that is not the zero matrix
InverseRefusedSingular ==
    /\ call.op = "inverse"
    /\ call.result = None
    /\ call.m.size = 4
    /\ \E k \in 1..16 : call.m.elements[k] # 0

\* equal as the claims mean it: the same size, and elements less than epsilon
\* apart
ApproxSame(a, b) ==
    /\ a.size = b.size
    /\ Len(a.elements) = Len(b.elements)
    /\ \A k \in 1..Len(a.elements) : equal_f64(a.elements[k], b.elements[k])

\* d times the identity matrix of the size
ScalarMatrix(size, d) ==
    MatrixNew([k \in 1..(size * size) |->
                 IF (k - 1) \div size = (k - 1) % size THEN d ELSE 0])

\* the cofactor matrix, transposed
CofactorsTransposed(m) ==
    MatrixNew([k \in 1..(m.size * m.size) |->
                 Cofactor(m, (k - 1) % m.size, (k - 1) \div m.size)])

\* the three equations of C12: the first and the last for a 4 by 4 matrix M,
\* the second for the matrices A and B of at least MinSize rows
InverseUndoes(MinSize) ==
    /\ call.op = "inverse_of_product" => TupleEq(call.result, call.t)
    /\ (call.op = "product_by_inverse" /\ call.b.size >= MinSize) =>
          ApproxSame(call.result, call.a)
    /\ (call.op = "inverse" /\ IsSome(call.result) /\ call.m.size = 4) =>
          ApproxSame(MatMul(CofactorsTransposed(call.m), call.m),
                     ScalarMatrix(call.m.size, Determinant(call.m)))

\* C12: for every invertible 4 by 4 matrix M and tuple t, M.inverse() * (M * t)
\* equals t; for every matrix A and invertible B, (A * B) * B.inverse() equals
\* A; and the transposed cofactor matrix of M times M is determinant(M) times
\* the identity.
InverseUndoesProduct == InverseUndoes(2)

\* what holds of it: the same with A and B of 3 or 4 rows
InverseUndoesProductFrom3 == InverseUndoes(3)

\* C13: for every square matrix M of size 2, 3 or 4 the transpose of the
\* transpose of M is M, and the transpose of the identity matrix is the
\* identity matrix.
TransposeTwiceIsSame ==
    call.op = "transpose" =>
        /\ call.m.size \in {2, 3, 4}
        /\ call.twice = call.m
        /\ call.m = ScalarMatrix(call.m.size, Scale) => call.result = call.m
        /\ call.m = Identity => call.result = Identity

\* a 3 by 3 matrix that is not symmetric has been transposed, and the element
\* of row 0, column 2 is now in row 2, column 0
TransposedAsymmetric ==
    /\ call.op = "transpose"
    /\ call.m.size = 3
    /\ call.result # call.m
    /\ At(call.result, 2, 0) = At(call.m, 0, 2)
    /\ At(call.m, 0, 2) # At(call.m, 2, 0)

\* C14: for 4 by 4 transforms A, B and C and every tuple p, the composed
\* matrix C * B * A applied to p is the same as applying A to p, then B, then
\* C: the rightmost factor acts first.
ChainAppliesRightmostFirst ==
    call.op = "chain" =>
        /\ TupleEq(call.result,
                   MatMulTuple(call.c, MatMulTuple(call.b, MatMulTuple(call.a, call.p))))
        /\ call.result =
               MatMulTuple(call.c, MatMulTuple(call.b, MatMulTuple(call.a, call.p)))

\* three different transforms were chained and the order matters: applying
\* them leftmost first would have given another tuple
ChainedInOrder ==
    /\ call.op = "chain"
    /\ call.a # call.b
    /\ call.b # call.c
    /\ call.a # call.c
    /\ ~TupleEq(call.result,
                MatMulTuple(call.a, MatMulTuple(call.b, MatMulTuple(call.c, call.p))))

\* size in {2, 3, 4} and size * size elements
WellFormed(m) == m.size \in {2, 3, 4} /\ Len(m.elements) = m.size * m.size

ReturnsWellFormed(MinSize, Lengths) ==
    /\ (call.op = "new" /\ Len(call.elements) \in Lengths) => WellFormed(call.result)
    /\ call.op = "transpose" => WellFormed(call.result)
    /\ (call.op = "submatrix" /\ call.m.size >= MinSize) => WellFormed(call.result)
    /\ (call.op = "inverse" /\ IsSome(call.result)) => WellFormed(Unwrap(call.result))
    /\ call.op = "mul" => WellFormed(call.result)

\* C15: every matrix has a size of 2, 3 or 4 and exactly size * size elements:
\* the one Matrix::new builds from any slice of elements, and the one that
\* transpose, submatrix, inverse and multiplication return.
MatricesAreSquare == ReturnsWellFormed(2, 0..16)

\* what holds of it: the same for slices of 4, 9 or 16 elements and for the
\* submatrices of matrices of 3 or 4 rows
MatricesAreSquareFrom3 == ReturnsWellFormed(3, {4, 9, 16})

\* C16: two matrices are equal exactly when they have the same size and each
\* element of one is within epsilon of the element of the other at the same
\* place; matrices of different sizes are not equal.
EqualIffSameSizeAndElements ==
    call.op = "eq" =>
        /\ call.result = ApproxSame(call.a, call.b)
        /\ call.a.size # call.b.size => ~call.result

\* what holds of it: the same for two matrices of the same size
EqualIffElementsOfSameSize ==
    (call.op = "eq" /\ call.a.size = call.b.size) =>
        call.result = ApproxSame(call.a, call.b)

(***************************************************************************)
(* The shapes and the stripe pattern on their own: the local intersections *)
(* of the plane and of the sphere, the normal of a transformed shape and   *)
(* the colour of a stripe pattern, each called once on an input drawn from *)
(* the sets below.                                                         *)
(***************************************************************************)
Half == Scale \div 2

\* rays for the plane: from above, from below and from inside the plane;
\* going down, going up, parallel to the plane and one grid unit off parallel
PlaneRays ==
    { Ray(Point(ox, oy, 0), Vector(0, dy, dz)) :
        ox \in {0, Scale},
        oy \in {-2 * Scale, -Scale, 0, Half, Scale, 10 * Scale},
        dy \in {-2 * Scale, -Scale, -EPSILON, 0, EPSILON, Scale, 2 * Scale},
        dz \in {0, Scale} }

\* rays for the sphere: through it, tangent to it, past it, from inside it and
\* from behind it; no direction is the zero vector
SphereRays ==
    { Ray(Point(ox, oy, oz), direction) :
        ox \in {0, Half, Scale, 2 * Scale},
        oy \in {0, Scale},
        oz \in {-5 * Scale, 0, 5 * Scale},
        direction \in { Vector(0, 0, Scale), Vector(0, 0, -Scale), Vector(0, 0, 2 * Scale),
                        Vector(0, Scale, Scale), Vector(Scale, 0, 0), Vector(0, 0, Half) } }

\* the discriminant Sphere::intersect computes
SphereDiscriminant(ray) ==
    Bind(TSub(ray.origin, Point(0, 0, 0)), LAMBDA sphere_to_ray :
    Bind(Dot(ray.direction, ray.direction), LAMBDA a :
    Bind(FMul(2 * Scale, Dot(ray.direction, sphere_to_ray)), LAMBDA b :
    Bind(Dot(sphere_to_ray, sphere_to_ray) - Scale, LAMBDA c :
        FMul(b, b) - FMul(FMul(4 * Scale, a), c)))))

\* invertible transforms built by the combinators of matrix.rs: translations,
\* uniform and non-uniform scalings, a rotation, a shear and products of them
ShapeTransforms ==
    { Identity,
      Translation(0, Scale, 0),
      Translation(Scale, 2 * Scale, 3 * Scale),
      Scaling(2 * Scale, 2 * Scale, 2 * Scale),
      Scaling(2 * Scale, 3 * Scale, 4 * Scale),
      Scaling(Scale, Half, Scale),
      QuarterTurn,
      UpperShear,
      MatMul(Translation(Scale, 2 * Scale, 3 * Scale), Scaling(2 * Scale, 3 * Scale, 4 * Scale)),
      MatMul(Scaling(Scale, Half, Scale), QuarterTurn) }

TransformedShapes ==
    { WithTransform(shape, transform) :
        shape \in {SphereNew(1), PlaneNew(2)}, transform \in ShapeTransforms }

\* points of the unit sphere and of the plane y = 0, in object space
SurfacePoints(shape) ==
    IF shape.kind = "sphere"
    THEN { Point(Scale, 0, 0), Point(0, Scale, 0), Point(0, 0, -Scale),
           Point((6 * Scale) \div 10, (8 * Scale) \div 10, 0),
           Point(0, (-6 * Scale) \div 10, (8 * Scale) \div 10),
           Point((577 * Scale) \div 1000, (577 * Scale) \div 1000, (577 * Scale) \div 1000),
           Point(0, (707 * Scale) \div 1000, (-707 * Scale) \div 1000) }
    ELSE { Point(0, 0, 0), Point(Scale, 0, -2 * Scale), Point(-3 * Scale, 0, Half) }

StripePatterns ==
    { StripePattern(White, Black), StripePattern(Color(Scale, 0, 0), Color(0, 0, Scale)) }

\* x from -3 to 3.1 in steps of a half, on the whole numbers and a tenth past them
StripePoints ==
    { Point(k * Half + d, y, z) :
        k \in -6..6, d \in {0, Scale \div 10}, y \in {0, 2 * Scale}, z \in {0, -Scale} }

InitShapes ==
    /\ world = WorldNew
    /\ camera = DefaultCamera
    /\ InitRender
    /\ xs = << >>
    /\ call = NoCall

CallPlaneIntersect(ray) ==
    /\ call = NoCall
    /\ call' = [op |-> "plane_intersect", ray |-> ray, result |-> PlaneIntersect(ray)]
    /\ UNCHANGED << world, camera, renderVars, xs >>

CallSphereIntersect(ray) ==
    /\ call = NoCall
    /\ call' = [op |-> "sphere_intersect", ray |-> ray, result |-> SphereIntersect(ray)]
    /\ UNCHANGED << world, camera, renderVars, xs >>

\* normal_at on the world point the transform sends local_point to
CallNormalAt(shape, local_point) ==
    /\ call = NoCall
    /\ \E world_point \in { MatMulTuple(shape.transform, local_point) } :
          call' = [op |-> "normal_at", shape |-> shape, world_point |-> world_point,
                   result |-> NormalAt(shape, world_point)]
    /\ UNCHANGED << world, camera, renderVars, xs >>

CallPatternAt(pattern, point) ==
    /\ call = NoCall
    /\ call' = [op |-> "pattern_at", pattern |-> pattern, point |-> point,
                result |-> PatternAt(pattern, point)]
    /\ UNCHANGED << world, camera, renderVars, xs >>

NextShapes ==
    \/ \E ray \in PlaneRays : CallPlaneIntersect(ray)
    \/ \E ray \in SphereRays : CallSphereIntersect(ray)
    \/ \E shape \in TransformedShapes : \E local_point \in SurfacePoints(shape) :
          CallNormalAt(shape, local_point)
    \/ \E pattern \in StripePatterns, point \in StripePoints : CallPatternAt(pattern, point)

SpecShapes == InitShapes /\ [][NextShapes]_vars

\* C17: the plane reports no intersection when the absolute value of the y
\* component of the ray's direction is below epsilon, wherever the ray starts
\* (in the plane too), and otherwise exactly one intersection, at
\* t = -origin.y / direction.y, for a ray from above as for a ray from below.
PlaneIntersectsOnceUnlessParallel ==
    call.op = "plane_intersect" =>
        /\ Abs(call.ray.direction.y) < EPSILON => call.result = << >>
        /\ Abs(call.ray.direction.y) >= EPSILON =>
              /\ Len(call.result) = 1
              /\ call.result[1] = FDiv(-call.ray.origin.y, call.ray.direction.y)
        /\ (call.ray.origin.y > 0 /\ call.ray.direction.y <= -Scale) =>
              (Len(call.result) = 1 /\ call.result[1] > 0)
        /\ (call.ray.origin.y < 0 /\ call.ray.direction.y >= Scale) =>
              (Len(call.result) = 1 /\ call.result[1] > 0)

\* a ray from above the plane, going down, met the plane ahead of its origin
PlaneHitFromAbove ==
    /\ call.op = "plane_intersect"
    /\ call.ray.origin.y = Scale
    /\ call.ray.direction.y = -2 * Scale
    /\ call.result = << Half >>

\* C18: for every ray whose direction is not zero the sphere reports either no
\* intersection, when the discriminant is negative, or exactly two values of
\* t, the first less than or equal to the second and the two equal for a
\* tangent ray; it never reports a single value.
SphereIntersectsTwiceOrNever ==
    call.op = "sphere_intersect" =>
        /\ Len(call.result) \in {0, 2}
        /\ (Len(call.result) = 0) = (SphereDiscriminant(call.ray) < 0)
        /\ Len(call.result) = 2 =>
              /\ call.result[1] <= call.result[2]
              /\ SphereDiscriminant(call.ray) = 0 => call.result[1] = call.result[2]

\* a ray through the centre met the sphere at two different values of t, and a
\* hit is reported with the nearer one first
SphereHitTwice ==
    /\ call.op = "sphere_intersect"
    /\ call.ray = Ray(Point(0, 0, -5 * Scale), Vector(0, 0, Scale))
    /\ call.result = << 4 * Scale, 6 * Scale >>

\* the square of the length of the x, y, z part, in units of 1 / (Scale * Scale)
SquaredLength(n) == n.x * n.x + n.y * n.y + n.z * n.z

\* what the rounding of the fixed-point grid can take from, or add to, the
\* squared length of a normalized vector: one hundredth
UnitTolerance == (Scale * Scale) \div 100

\* C19: for a shape whose transform has an inverse and a world point of its
\* surface, normal_at returns a vector, w = 0, of length one, with a
\* translation or a non-uniform scaling in the transform as without; length
\* one is length one up to the rounding of the grid.
NormalIsUnitVector ==
    call.op = "normal_at" =>
        /\ call.result.w = 0
        /\ Abs(SquaredLength(call.result) - Scale * Scale) <= UnitTolerance

\* the normal of a sphere moved and scaled differently along each axis, at a
\* point off the axes: the scaling alone would have left it longer or shorter
\* than one and the translation would have left it a w
NormalOfMovedStretchedSphere ==
    /\ call.op = "normal_at"
    /\ call.shape.kind = "sphere"
    /\ call.shape.transform =
           MatMul(Translation(Scale, 2 * Scale, 3 * Scale),
                  Scaling(2 * Scale, 3 * Scale, 4 * Scale))
    /\ call.result.x # 0
    /\ call.result.y # 0
    /\ call.result.w = 0

\* C20: the stripe pattern gives colour a where the floor of x is even and
\* colour b where it is odd, below zero as above it: b for x in [-1, 0), a for
\* x in [-2, -1); y and z have no part in the result.
StripeFollowsFloorOfX ==
    call.op = "pattern_at" =>
        /\ call.result = IF Floor(call.point.x) % 2 = 0 THEN call.pattern.a
                                                        ELSE call.pattern.b
        /\ (call.point.x >= -Scale /\ call.point.x < 0) => call.result = call.pattern.b
        /\ (call.point.x >= -2 * Scale /\ call.point.x < -Scale) =>
              call.result = call.pattern.a
        /\ call.result = PatternAt(call.pattern, Point(call.point.x, 0, 0))

\* a point with x strictly between -1 and 0, off the x axis, got colour b
StripeBelowZero ==
    /\ call.op = "pattern_at"
    /\ call.point.x > -Scale
    /\ call.point.x < 0
    /\ call.point.y # 0
    /\ call.point.z # 0
    /\ call.result = call.pattern.b
    /\ call.pattern.b # call.pattern.a

(***************************************************************************)
(* What a surface looks like at a point: the pattern seen through the      *)
(* transforms of the object and of the pattern, the computation prepared   *)
(* for a hit, the shading of it, the determinant behind every inverse, the *)
(* lighting in and out of shadow, and the camera's pixel size.             *)
(***************************************************************************)
\* pattern transforms and object transforms, each with an inverse
SurfaceTransforms ==
    { Identity, Scaling(2 * Scale, 2 * Scale, 2 * Scale), Translation(Half, 0, 0),
      Translation(Scale, 0, 0), QuarterTurn }

SurfacePatterns ==
    { PatternWithTransform(StripePattern(White, Black), transform) :
        transform \in SurfaceTransforms }

SurfaceObjects ==
    { WithTransform(SphereNew(1), transform) : transform \in SurfaceTransforms }

\* world points with x and y from -3 to 3 in steps of a half
SurfaceProbes == { Point(kx * Half, ky * Half, 0) : kx \in -6..6, ky \in {-3, 0, 2} }

InitSurface ==
    /\ world = WorldNew
    /\ camera = DefaultCamera
    /\ InitRender
    /\ xs = << >>
    /\ call = NoCall

CallAtObject(pattern, object, point) ==
    /\ call = NoCall
    /\ call' = [op |-> "at_object", pattern |-> pattern, object |-> object,
                point |-> point, result |-> AtObject(pattern, object, point)]
    /\ UNCHANGED << world, camera, renderVars, xs >>

\* the largest hsize and vsize a camera is built with
MaxCanvasSide == 8

\* fields of view: a sixth, a third and a half of a turn of pi, and one radian
FieldsOfView == { PiOver2 \div 3, (2 * PiOver2) \div 3, PiOver2, Scale }

CallCameraNew(hsize, vsize, field_of_view) ==
    /\ call = NoCall
    /\ call' = [op |-> "camera_new", result |-> CameraNew(hsize, vsize, field_of_view),
                swapped |-> CameraNew(vsize, hsize, field_of_view)]
    /\ UNCHANGED << world, camera, renderVars, xs >>

NextSurface ==
    \/ \E pattern \in SurfacePatterns, object \in SurfaceObjects, point \in SurfaceProbes :
          CallAtObject(pattern, object, point)
    \/ \E hsize, vsize \in 1..MaxCanvasSide, field_of_view \in FieldsOfView :
          CallCameraNew(hsize, vsize, field_of_view)

SpecSurface == InitSurface /\ [][NextSurface]_vars

\* C21: at_object is pattern_at at the point the inverse of the pattern's
\* transform sends the point the inverse of the object's transform sends the
\* world point to: the object's inverse acts first, the pattern's second.
AtObjectUndoesObjectThenPattern ==
    call.op = "at_object" =>
        call.result =
            PatternAt(call.pattern,
                      MatMulTuple(Unwrap(Inverse(call.pattern.transform)),
                                  MatMulTuple(Unwrap(Inverse(call.object.transform)),
                                              call.point)))

\* an object scaled by 2 under a pattern moved by a half, seen at x = 2.5:
\* x is 1.25 in the object and 0.75 in the pattern, colour a; in the other
\* order x would have been 1, colour b
AtObjectOrderMatters ==
    /\ call.op = "at_object"
    /\ call.object.transform = Scaling(2 * Scale, 2 * Scale, 2 * Scale)
    /\ call.pattern.transform = Translation(Half, 0, 0)
    /\ call.point.x = 5 * Half
    /\ call.result = call.pattern.a
    /\ PatternAt(call.pattern,
                 MatMulTuple(Unwrap(Inverse(call.object.transform)),
                             MatMulTuple(Unwrap(Inverse(call.pattern.transform)),
                                         call.point)))
           = call.pattern.b

\* a and b are the same up to slack units of the grid for each of n pixels
WithinPerPixel(a, b, n, slack) == Abs(a - b) <= slack * n

\* C22: the pixels of a camera are square, whatever hsize and vsize from 1
\* up: pixel_size * hsize is twice half_width and pixel_size * vsize is twice
\* half_height, the larger of the two halves being tan(field_of_view / 2); a
\* camera of w by h and one of h by w with the same field of view have the
\* same pixel_size.  The same is the same up to the rounding of the grid: two
\* units of it for each pixel of the side.
PixelsAreSquare ==
    call.op = "camera_new" =>
        /\ WithinPerPixel(call.result.pixel_size * call.result.hsize,
                          2 * call.result.half_width, call.result.hsize, 2 * EPSILON)
        /\ WithinPerPixel(call.result.pixel_size * call.result.vsize,
                          2 * call.result.half_height, call.result.vsize, 2 * EPSILON)
        /\ (IF call.result.half_width >= call.result.half_height
            THEN call.result.half_width ELSE call.result.half_height)
               = Tan(FDiv(call.result.field_of_view, 2 * Scale))
        /\ WithinPerPixel(call.result.pixel_size, call.swapped.pixel_size, 1, 2 * EPSILON)
        /\ call.result.pixel_size > 0

\* a camera taller than wide: the height of its view is tan(fov / 2), the
\* width is less
CameraTallerThanWide ==
    /\ call.op = "camera_new"
    /\ call.result.hsize = 5
    /\ call.result.vsize = 8
    /\ call.result.field_of_view = PiOver2
    /\ call.result.half_width < call.result.half_height
    /\ call.swapped.half_width > call.swapped.half_height

(***************************************************************************)
(* The canvas as text: to_ppm on canvases of one or two rows, painted with *)
(* a palette that repeats along the row.                                   *)
(***************************************************************************)
\* the widest canvas written out
MaxPpmWidth == 13

\* colours of 1, 2 and 3 digits a channel, in and out of the range 0..1
Palettes ==
    { << Black >>, << White >>, << White, Black >>,
      << Color(Scale, (8 * Scale) \div 10, (6 * Scale) \div 10) >>,
      << Color((15 * Scale) \div 10, -Half, Half), Color(Scale \div 100, Scale \div 10, Scale) >> }

\* the canvas write_pixel leaves when every pixel (x, y) was given the colour
\* of the palette at x + y
Painted(width, height, palette) ==
    [width |-> width, height |-> height,
     pixels |-> [k \in 1..(width * height) |->
                    palette[((((k - 1) % width) + ((k - 1) \div width)) % Len(palette)) + 1]]]

PpmCanvases ==
    { Painted(width, height, palette) :
        width \in 1..MaxPpmWidth, height \in {1, 2}, palette \in Palettes }

InitPpm ==
    /\ world = WorldNew
    /\ camera = DefaultCamera
    /\ pc = "idle"
    /\ started = None
    /\ image \in PpmCanvases
    /\ pending = {}
    /\ workers = [w \in Workers |-> None]
    /\ results = << >>
    /\ pixels = << >>
    /\ wi = 0
    /\ computed = << >>
    /\ reordered = FALSE
    /\ written = << >>
    /\ xs = << >>
    /\ call = NoCall

CallToPpm ==
    /\ call = NoCall
    /\ call' = [op |-> "to_ppm", text |-> ToPpm(image)]
    /\ UNCHANGED << world, camera, renderVars, xs >>

NextPpm == CallToPpm

SpecPpm == InitPpm /\ [][NextPpm]_vars

\* str::lines: the pieces between the line feeds, without the empty piece
\* after the last one
LinesOf(text) ==
    Bind(Split(text, "\n"), LAMBDA pieces :
        IF Len(pieces) > 0 /\ pieces[Len(pieces)] = << >>
        THEN SubSeq(pieces, 1, Len(pieces) - 1) ELSE pieces)

LinesWithin(limit) ==
    call.op = "to_ppm" =>
        \A k \in 1..Len(LinesOf(call.text)) : Len(LinesOf(call.text)[k]) <= limit

\* C23: no line of the text to_ppm produces is longer than 70 characters,
\* whatever the width, the height and the pixels of the canvas.
PpmLinesWithin70 == LinesWithin(70)

\* what holds of it: no line is longer than 71 characters, and none is longer
\* than 70 on a canvas of at most 11 pixels a row
PpmLinesWithin71 ==
    /\ LinesWithin(71)
    /\ image.width <= 11 => LinesWithin(70)

(***************************************************************************)
(* The canvas under write_pixel: a canvas of up to MaxSide by MaxSide      *)
(* pixels, created black, takes up to MaxWrites writes, whose x and y run  *)
(* one past the largest side.  Here started holds the canvas as it was     *)
(* created and written the writes made, in order: <<x, y, color>>.         *)
(***************************************************************************)
MaxWrites == 2

Inks == { Color(Scale, 0, 0), White }

InitCanvas ==
    /\ world = WorldNew
    /\ camera = DefaultCamera
    /\ pc = "idle"
    /\ \E width, height \in 1..MaxSide :
          /\ image = CanvasNew(width, height)
          /\ started = Some(CanvasNew(width, height))
    /\ pending = {}
    /\ workers = [w \in Workers |-> None]
    /\ results = << >>
    /\ pixels = << >>
    /\ wi = 0
    /\ computed = << >>
    /\ reordered = FALSE
    /\ written = << >>
    /\ xs = << >>
    /\ call = NoCall

CallWritePixel(x, y, color) ==
    /\ Len(written) < MaxWrites
    /\ image' = WritePixel(image, x, y, color)
    /\ written' = Append(written, << x, y, color >>)
    /\ call' = [op |-> "write_pixel", x |-> x, y |-> y, color |-> color, before |-> image]
    /\ UNCHANGED << world, camera, pc, started, pending, workers, results, pixels, wi,
                    computed, reordered, xs >>

NextCanvas == \E x, y \in 0..MaxSide, color \in Inks : CallWritePixel(x, y, color)

SpecCanvas == InitCanvas /\ [][NextCanvas]_vars

\* the positions in written of the writes to (x, y)
WritesTo(x, y) == { k \in 1..Len(written) : written[k][1] = x /\ written[k][2] = y }

\* the colour of the last write to (x, y), black without one
LastWritten(x, y) ==
    IF WritesTo(x, y) = {} THEN Color(0, 0, 0)
    ELSE written[CHOOSE k \in WritesTo(x, y) : \A j \in WritesTo(x, y) : j <= k][3]

InBounds(canvas, x, y) == x < canvas.width /\ y < canvas.height

\* C24: after any writes to a new canvas, pixel_at(x, y) for (x, y) inside the
\* canvas is the colour of the last write_pixel to (x, y), black if there was
\* none; a write inside the canvas changes that one pixel and no other.
PixelAtIsLastWrite ==
    /\ \A x \in 0..(image.width - 1), y \in 0..(image.height - 1) :
          PixelAt(image, x, y) = LastWritten(x, y)
    /\ (call.op = "write_pixel" /\ InBounds(call.before, call.x, call.y)) =>
          /\ PixelAt(image, call.x, call.y) = call.color
          /\ \A x \in 0..(image.width - 1), y \in 0..(image.height - 1) :
                (x # call.x \/ y # call.y) =>
                    PixelAt(image, x, y) = PixelAt(call.before, x, y)

\* pixel (0, 1) of a canvas 2 wide was written twice, in two colours, and
\* holds the second; pixel (1, 0) is black still
PixelOverwritten ==
    /\ image.width = 2
    /\ image.height = 2
    /\ Len(written) = 2
    /\ written[1] = << 0, 1, White >>
    /\ written[2] = << 0, 1, Color(Scale, 0, 0) >>
    /\ PixelAt(image, 0, 1) = Color(Scale, 0, 0)
    /\ PixelAt(image, 1, 0) = Color(0, 0, 0)

\* C30: write_pixel with x >= width or y >= height leaves the canvas as it
\* was, no pixel changed and no panic; after any writes, inside the canvas or
\* not, the buffer has width * height entries and width and height are those
\* the canvas was created with.
WriteOutsideLeavesCanvas ==
    /\ (call.op = "write_pixel" /\ ~InBounds(call.before, call.x, call.y)) =>
          image = call.before
    /\ (call.op = "write_pixel" /\ InBounds(call.before, call.x, call.y)) =>
          CanvasIndex(call.before, call.x, call.y) < Len(call.before.pixels)
    /\ Len(image.pixels) = image.width * image.height
    /\ image.width = Unwrap(started).width
    /\ image.height = Unwrap(started).height

\* a write one column past the right edge of a canvas of 2 by 2, on a row the
\* canvas has: the index of that x and y is the one of pixel (0, 1), which
\* kept the colour of the write before
WrotePastRightEdge ==
    /\ call.op = "write_pixel"
    /\ image.width = 2
    /\ image.height = 2
    /\ call.x = 2
    /\ call.y = 0
    /\ call.color = White
    /\ written[1] = << 0, 1, Color(Scale, 0, 0) >>
    /\ PixelAt(image, 0, 1) = Color(Scale, 0, 0)
    /\ image = call.before

(***************************************************************************)
(* Ties: worlds whose objects touch or coincide, so that a ray meets two   *)
(* of them at the same t, and sets of intersections in any order with the  *)
(* same t more than once.                                                  *)
(***************************************************************************)
TieWorlds ==
    { [light |-> None, objects |-> objects] :
        objects \in { << SphereNew(1), SphereNew(2) >>,
                      << SphereNew(2), SphereNew(1) >>,
                      << SphereNew(3), SphereNew(1), SphereNew(2) >>,
                      << SphereNew(1), WithTransform(PlaneNew(2), Translation(0, -Scale, 0)) >>,
                      << WithTransform(PlaneNew(2), Translation(0, -Scale, 0)), SphereNew(1) >>,
                      << WithTransform(SphereNew(2), Translation(0, 0, 2 * Scale)),
                         SphereNew(1) >> } }

TieRays ==
    Rays \cup { Ray(Point(0, 0, -5 * Scale), Vector(0, 0, 2 * Scale)),
                Ray(Point(0, 0, 0), Vector(0, 0, -Scale)),
                Ray(Point(0, Scale, -5 * Scale), Vector(0, 0, Scale)) }

TieMembers == { Intersection(t, SphereNew(id)) : t \in {-Scale, Scale, 2 * Scale}, id \in {1, 2, 3} }

TieSets == UNION { [1..n -> TieMembers] : n \in 0..MaxLen }

InitTies ==
    /\ world \in TieWorlds
    /\ camera = DefaultCamera
    /\ InitRender
    /\ xs = << >>
    /\ call = NoCall

\* world.intersect(ray).hit()
CallIntersectHit(ray) ==
    /\ call = NoCall
    /\ \E intersections \in { WorldIntersect(world, ray) } :
          /\ xs' = intersections
          /\ call' = [op |-> "intersect_hit", ray |-> ray, result |-> Hit(intersections)]
    /\ UNCHANGED << world, camera, renderVars >>

\* Intersections::new(set).hit()
CallHitOf(set) ==
    /\ call = NoCall
    /\ xs' = set
    /\ call' = [op |-> "hit_of", result |-> Hit(set)]
    /\ UNCHANGED << world, camera, renderVars >>

NextTies ==
    \/ \E ray \in TieRays : CallIntersectHit(ray)
    \/ \E set \in TieSets : CallHitOf(set)

SpecTies == InitTies /\ [][NextTies]_vars

\* the positions of xs whose t is the least of the strictly positive t
LeastPositive ==
    { k \in 1..Len(xs) : xs[k].t > 0 /\ \A j \in 1..Len(xs) : xs[j].t > 0 => xs[k].t <= xs[j].t }

\* the position of the object in the world
PlaceInWorld(object) == CHOOSE k \in 1..Len(world.objects) : world.objects[k] = object

\* C25: when several intersections share the least strictly positive t, hit
\* returns the one that comes first in the order the set is in; the sort being
\* stable, after World::intersect that is the intersection of the object that
\* comes first in the world.
HitTakesFirstOfTies ==
    /\ (call.op \in {"hit_of", "intersect_hit"} /\ LeastPositive # {}) =>
          call.result = Some(xs[CHOOSE k \in LeastPositive : \A j \in LeastPositive : k <= j])
    /\ (call.op = "intersect_hit" /\ IsSome(call.result)) =>
          \A j \in LeastPositive :
              PlaceInWorld(Unwrap(call.result).object) <= PlaceInWorld(xs[j].object)

\* two spheres in the same place, the one with id 2 first in the world: the
\* ray meets both at the same t and the hit is on the one with id 2
HitOnFirstOfTwins ==
    /\ call.op = "intersect_hit"
    /\ world.objects = << SphereNew(2), SphereNew(1) >>
    /\ IsSome(call.result)
    /\ Unwrap(call.result).object = SphereNew(2)
    /\ \E j \in 1..Len(xs) : xs[j] = Intersection(Unwrap(call.result).t, SphereNew(1))

(***************************************************************************)
(* The over point: the hit of a ray on a world, prepared and shaded.  The  *)
(* rays have a direction of length one and meet a sphere of radius one or  *)
(* a plane, so that the hit point the model computes is within one unit of *)
(* the grid, the model's epsilon, of the surface.                          *)
(***************************************************************************)
OverLights ==
    { Point(-10 * Scale, 10 * Scale, -10 * Scale), Point(0, 5 * Scale, -5 * Scale),
      Point(0, 0, -10 * Scale), Point(5 * Scale, 5 * Scale, 5 * Scale) }

\* one sphere or one plane under a light, and the worlds of two objects
OverWorlds ==
    { [light |-> Some(PointLight(position, White)), objects |-> << shape >>] :
        shape \in { SphereNew(1), WithTransform(PlaneNew(1), Translation(0, -Scale, 0)) },
        position \in OverLights }
    \cup { DefaultWorld, ShadowWorld, PlaneWorld }

\* rays along z from in front of the objects, on and off the axis, rays from
\* the centre and a ray down on the plane
OverRays ==
    { Ray(Point(ox, oy, -5 * Scale), Vector(0, 0, Scale)) :
        ox \in {0, (3 * Scale) \div 10, Half, (7 * Scale) \div 10},
        oy \in {0, (3 * Scale) \div 10, Half} }
    \cup { Ray(Point(0, 0, 0), Vector(0, 0, Scale)), Ray(Point(0, 0, 0), Vector(0, Scale, 0)),
           Ray(Point(0, 0, 0), Vector(0, -Scale, 0)),
           Ray(Point(3 * Scale, 2 * Scale, 0), Vector(0, -Scale, 0)) }

InitOver ==
    /\ world \in OverWorlds
    /\ camera = DefaultCamera
    /\ InitRender
    /\ xs = << >>
    /\ call = NoCall

\* the two calls color_at makes on the hit of the ray
CallShadeHitOfHit(ray) ==
    /\ call = NoCall
    /\ \E intersections \in { WorldIntersect(world, ray) } :
          /\ IsSome(Hit(intersections))
          /\ xs' = intersections
          /\ \E comps \in { PrepareComputation(Unwrap(Hit(intersections)), ray) } :
                call' = [op |-> "shade_hit_of_hit", ray |-> ray, comps |-> comps,
                         result |-> ShadeHit(world, comps)]
    /\ UNCHANGED << world, camera, renderVars >>

\* the rays a computation is prepared for: those above and rays that touch
\* the sphere or run past it
GrazingRays ==
    OverRays \cup { Ray(Point(Scale, 0, -5 * Scale), Vector(0, 0, Scale)),
                    Ray(Point(0, -Scale, -5 * Scale), Vector(0, 0, Scale)),
                    Ray(Point(0, 0, 5 * Scale), Vector(0, 0, Scale)) }

\* prepare_computation on an intersection of the ray with an object of the
\* world, in front of the origin of the ray or behind it
CallPrepareComputation(ray, k, n) ==
    /\ call = NoCall
    /\ k <= Len(world.objects)
    /\ \E intersections \in { RayIntersect(ray, world.objects[k]) } :
          /\ n <= Len(intersections)
          /\ call' = [op |-> "prepare_computation", ray |-> ray, i |-> intersections[n],
                      result |-> PrepareComputation(intersections[n], ray)]
    /\ UNCHANGED << world, camera, renderVars, xs >>

NextOver ==
    \/ \E ray \in OverRays : CallShadeHitOfHit(ray)
    \/ \E ray \in GrazingRays, k \in {1, 2}, n \in {1, 2} : CallPrepareComputation(ray, k, n)

SpecOver == InitOver /\ [][NextOver]_vars

\* the direction from the hit point to the light
TowardsLight(comps) == Normalize(TSub(Unwrap(world.light).position, comps.point))

InsideIffNormalAgainstEye ==
    call.op = "prepare_computation" =>
        /\ call.result.eyev = TNeg(call.ray.direction)
        /\ call.result.t = call.i.t
        /\ call.result.object = call.i.object
        /\ call.result.point = Position(call.ray, call.i.t)
        /\ call.result.inside =
               (Dot(NormalAt(call.i.object, call.result.point), call.result.eyev) < 0)
        /\ call.result.normalv =
               (IF Dot(NormalAt(call.i.object, call.result.point), call.result.eyev) < 0
                THEN TNeg(NormalAt(call.i.object, call.result.point))
                ELSE NormalAt(call.i.object, call.result.point))
        /\ Dot(call.result.normalv, call.result.eyev) >= 0

\* the far intersection of a ray through a sphere: the ray leaves the sphere
\* there, the normal of the sphere points along the ray and the computation
\* has it turned back
PreparedFromInside ==
    /\ call.op = "prepare_computation"
    /\ call.i.object.kind = "sphere"
    /\ call.result.inside
    /\ call.result.normalv = TNeg(NormalAt(call.i.object, call.result.point))
    /\ Dot(call.result.normalv, call.result.eyev) > 0
    /\ call.ray.origin = Point(0, 0, -5 * Scale)

(***************************************************************************)
(* Matrix::determinant on matrices of whole numbers of every size, against *)
(* the sum over permutations                                               *)
(***************************************************************************)
\* the whole numbers the matrices are filled from
Fillers == {-1, 0, 2}

DeterminantMatrices ==
    { Whole(<< a, b, c, d >>) : a, b, c, d \in Fillers \cup {3} }
    \cup { Whole(<< a, b, c,   d, 1, 2,   3, e, -1 >>) : a, b, c, d, e \in Fillers }
    \cup { Whole(<< a, 1, b, 2,   -1, c, 1, 0,   2, 0, d, 1,   0, -1, 3, e >>) :
             a, b, c, d, e \in Fillers }

\* the permutations of 0..(n - 1)
PermutationsOf(n) ==
    { p \in [0..(n - 1) -> 0..(n - 1)] : \A i, j \in 0..(n - 1) : p[i] = p[j] => i = j }

\* 1 for an even permutation, -1 for an odd one
Sign(p, n) ==
    IF Cardinality({ pair \in (0..(n - 1)) \X (0..(n - 1)) :
                       pair[1] < pair[2] /\ p[pair[1]] > p[pair[2]] }) % 2 = 0
    THEN 1 ELSE -1

RECURSIVE ProductAlong(_, _, _)
\* the product of the whole numbers m holds at (row, p[row]), rows row and after
ProductAlong(m, p, row) ==
    IF row = m.size THEN 1
    ELSE (At(m, row, p[row]) \div Scale) * ProductAlong(m, p, row + 1)

RECURSIVE SumOfTerms(_, _)
SumOfTerms(m, ps) ==
    IF ps = {} THEN 0
    ELSE LET p == CHOOSE q \in ps : TRUE
         IN  Sign(p, m.size) * ProductAlong(m, p, 0) + SumOfTerms(m, ps \ {p})

\* the determinant of a matrix of whole numbers as the sum over permutations
ReferenceDeterminant(m) == Scale * SumOfTerms(m, PermutationsOf(m.size))

InitDeterminant ==
    /\ world = WorldNew
    /\ camera = DefaultCamera
    /\ InitRender
    /\ xs = << >>
    /\ call = NoCall

CallDeterminant(m) ==
    /\ call = NoCall
    /\ call' = [op |-> "determinant", m |-> m, result |-> Determinant(m)]
    /\ UNCHANGED << world, camera, renderVars, xs >>

CallCofactor(m, row, col) ==
    /\ call = NoCall
    /\ m.size > 2
    /\ call' = [op |-> "cofactor", m |-> m, row |-> row, col |-> col,
                result |-> Cofactor(m, row, col), minor |-> Minor(m, row, col)]
    /\ UNCHANGED << world, camera, renderVars, xs >>

NextDeterminant ==
    \/ \E m \in DeterminantMatrices : CallDeterminant(m)
    \/ \E m \in Square3 \cup Unimodular4 : \E row, col \in 0..(m.size - 1) :
          CallCofactor(m, row, col)

SpecDeterminant == InitDeterminant /\ [][NextDeterminant]_vars

\* C28: the determinant, a d - b c for a 2 by 2 matrix and the expansion by
\* cofactors along row 0 for a 3 by 3 and a 4 by 4 matrix, the cofactor being
\* the minor negated where row + col is odd, is the sum over the permutations
\* of the signed products.
DeterminantIsSumOverPermutations ==
    /\ call.op = "determinant" =>
           /\ call.m.size \in {2, 3, 4}
           /\ call.result = ReferenceDeterminant(call.m)
    /\ call.op = "cofactor" =>
           call.result = (IF (call.row + call.col) % 2 = 0 THEN call.minor
                          ELSE -call.minor)

\* a 4 by 4 matrix of determinant other than zero to which a cofactor of odd
\* column contributes
ExpandedAlongRowZero ==
    /\ call.op = "determinant"
    /\ call.m.size = 4
    /\ call.result # 0
    /\ At(call.m, 0, 1) # 0
    /\ Minor(call.m, 0, 1) # 0
    /\ Minor(call.m, 0, 3) # 0

(***************************************************************************)
(* lighting out of shadow: the sum of the three terms                      *)
(***************************************************************************)
\* the dot product of the light vector and the normal in a call of lighting
LightDotNormal(c) == Dot(Normalize(TSub(c.light.position, c.point)), c.normalv)

\* the dot product of the reflected light vector and the eye vector
ReflectDotEye(c) ==
    Dot(Reflect(TNeg(Normalize(TSub(c.light.position, c.point))), c.normalv), c.eyev)

\* the diffuse term: the color under the light times diffuse times the dot
\* product of the light vector and the normal
DiffuseOf(c) ==
    CScale(CScale(CMul(IF IsSome(c.material.pattern)
                       THEN AtObject(Unwrap(c.material.pattern), c.object, c.point)
                       ELSE c.material.color,
                       c.light.intensity),
                  c.material.diffuse),
           LightDotNormal(c))

\* the specular term: black unless the reflection is towards the eye
SpecularOf(c) ==
    IF ReflectDotEye(c) <= 0 THEN Black
    ELSE CScale(CScale(c.light.intensity, c.material.specular),
                FPow(ReflectDotEye(c), c.material.shininess))

\* every component of color a is at least that of color b
AtLeast(a, b) == a.red >= b.red /\ a.green >= b.green /\ a.blue >= b.blue

\* C29: lighting out of shadow with the light in front of the surface returns
\* ambient + diffuse + specular, the specular term being black when the dot
\* product of the reflected light vector and the eye vector is not positive
\* and intensity times specular times that dot product raised to shininess
\* otherwise; every component of the result out of shadow is at least that
\* of the result in shadow.
UnshadowedIsSumOfTerms ==
    call.op = "lighting" =>
        /\ (~call.in_shadown /\ LightDotNormal(call) >= 0) =>
              /\ call.terms.specular = SpecularOf(call)
              /\ call.terms.result =
                     CAdd(CAdd(AmbientOf(call), DiffuseOf(call)), SpecularOf(call))
        /\ AtLeast(Lighting(call.material, call.object, call.light, call.point,
                            call.eyev, call.normalv, FALSE),
                   Lighting(call.material, call.object, call.light, call.point,
                            call.eyev, call.normalv, TRUE))

\* lighting called out of shadow with the eye off the reflection: a highlight
\* weaker than the light, on top of ambient and diffuse terms
HighlightOffReflection ==
    /\ call.op = "lighting"
    /\ ~call.in_shadown
    /\ LightDotNormal(call) > 0
    /\ ReflectDotEye(call) > 0
    /\ ReflectDotEye(call) < Scale
    /\ call.terms.specular # Black
    /\ call.terms.diffuse # Black
    /\ call.terms.result # AmbientOf(call)

====
